---- MODULE Spec2Model ----
(***************************************************************************)
(* Model of the valuation-and-recommendation pipeline of the LA real       *)
(* estate appraisal engine: DSCRLoanModel, SalesCompModel, CapRateModel,    *)
(* the two RecommendationEngine variants and AppraiserEngine.               *)
(*                                                                         *)
(* The program is stateless: every entry point builds an object from its   *)
(* arguments, computes and returns.  The state of the model is therefore   *)
(* the invocation in progress: which entry point was called (entry), the   *)
(* fields of the object it was called on (args) and what came back         *)
(* (result: the returned dict, or the exception that left the call).       *)
(*                                                                         *)
(* Python values:                                                          *)
(*   None            <<>>                                                  *)
(*   a float / int   the exact rational <<n, d>>, d > 0, in lowest terms   *)
(*   a dict          a record (a function on its keys); {} is <<>>         *)
(*   an exception    <<"ZeroDivisionError">>, <<"TypeError">>, ...         *)
(* Floats are modelled by exact rationals: the binary rounding error of    *)
(* IEEE doubles is not represented, round(x, k) is.                        *)
(***************************************************************************)
EXTENDS Integers, Sequences, FiniteSets, TLC

VARIABLES entry, args, result, stages

vars == <<entry, args, result, stages>>

---------------------------------------------------------------------------
(* Python values *)

None == <<>>

ZeroDivisionError == <<"ZeroDivisionError">>

TypeError == <<"TypeError">>

AttributeError == <<"AttributeError">>

\* any other exception
Exception == <<"Exception">>

IsRaised(v) == v \in {ZeroDivisionError, TypeError, AttributeError, Exception}

\* dict.get(k): the value under k, None when the key is absent
Get(d, k) == IF k \in DOMAIN d THEN d[k] ELSE None

\* dict.get(k, default)
GetD(d, k, default) == IF k \in DOMAIN d THEN d[k] ELSE default

---------------------------------------------------------------------------
(* Exact rational arithmetic standing for Python float arithmetic.  Here   *)
(* and below a value that is used more than once is the parameter of a     *)
(* local operator, which TLC evaluates once.                               *)

Abs(i) == IF i < 0 THEN -i ELSE i

RECURSIVE Gcd(_, _)
Gcd(a, b) == IF b = 0 THEN Abs(a) ELSE Gcd(b, a % Abs(b))

\* n/d in lowest terms with a positive denominator (d # 0)
Norm(n, d) ==
    LET reduced(g, s) == <<(s * n) \div g, (s * d) \div g>>
    IN  reduced(Gcd(n, d), IF d < 0 THEN -1 ELSE 1)

R(i) == <<i, 1>>

IsNum(v) == Len(v) = 2

RAdd(a, b) == Norm(a[1] * b[2] + b[1] * a[2], a[2] * b[2])

RNeg(a) == <<-a[1], a[2]>>

RSub(a, b) == RAdd(a, RNeg(b))

\* the product, cancelling across before multiplying
RMul(a, b) ==
    LET cancelled(g1, g2) ==
            Norm((a[1] \div g1) * (b[1] \div g2), (a[2] \div g2) * (b[2] \div g1))
    IN  IF a[1] = 0 \/ b[1] = 0 THEN <<0, 1>>
        ELSE cancelled(Gcd(a[1], b[2]), Gcd(b[1], a[2]))

\* a / b for b # 0
RDiv(a, b) == RMul(a, Norm(b[2], b[1]))

RLt(a, b) == a[1] * b[2] < b[1] * a[2]

RLe(a, b) == a[1] * b[2] <= b[1] * a[2]

RGe(a, b) == RLe(b, a)

RGt(a, b) == RLt(b, a)

RMin(a, b) == IF RLe(a, b) THEN a ELSE b

RMax(a, b) == IF RGe(a, b) THEN a ELSE b

RAbs(a) == <<Abs(a[1]), a[2]>>

RECURSIVE Pow10(_)
Pow10(k) == IF k = 0 THEN 1 ELSE 10 * Pow10(k - 1)

\* q ** n for an int n >= 0
RECURSIVE RPow(_, _)
RPow(q, n) == IF n = 0 THEN <<1, 1>> ELSE RMul(q, RPow(q, n - 1))

\* round(q, k): to k decimals, an exact tie going to the even digit
Round(q, k) ==
    LET nearest(fl, rem2, den) ==
            IF rem2 > den \/ (rem2 = den /\ fl % 2 = 1) THEN fl + 1 ELSE fl
        digits(scaled) ==
            nearest(scaled[1] \div scaled[2], 2 * (scaled[1] % scaled[2]), scaled[2])
    IN  Norm(digits(RMul(q, R(Pow10(k)))), Pow10(k))

\* truth value of a float-or-None: None and 0 are false
Truthy(v) == IsNum(v) /\ v[1] # 0

\* `a or b` on float-or-None values
Or(a, b) == IF Truthy(a) THEN a ELSE b

---------------------------------------------------------------------------
(* DSCRLoanModel: src/models/dscr_loan_model.py.  m is the object:          *)
(* [noi, purchase_price, interest_rate, amort_years, min_dscr, max_ltv],    *)
(* amort_years an int, the others rationals.                                *)

DSCRLoanModel_monthly_rate(m) == RDiv(m.interest_rate, R(12))

DSCRLoanModel_num_payments(m) == m.amort_years * 12

\* loan_amount / n, or numerator / denominator: ZeroDivisionError when n = 0
DSCRLoanModel_payment_for_loan(m, loan_amount) ==
    LET quotient(numerator, denominator) ==
            IF denominator[1] = 0 THEN ZeroDivisionError
            ELSE RDiv(numerator, denominator)
        annuity(r, n, growth) ==
            IF RLe(r, R(0))
            THEN IF n = 0 THEN ZeroDivisionError ELSE RDiv(loan_amount, R(n))
            ELSE quotient(RMul(RMul(loan_amount, r), growth), RSub(growth, R(1)))
        payment(r, n) == annuity(r, n, RPow(RAdd(R(1), r), n))
    IN  payment(DSCRLoanModel_monthly_rate(m), DSCRLoanModel_num_payments(m))

\* a variant of the inverse that is straight-line at every rate
DSCRLoanModel_loan_from_annual_debt_service_flat(m, annual_debt_service) ==
    RMul(RDiv(annual_debt_service, R(12)), R(DSCRLoanModel_num_payments(m)))

DSCRLoanModel_loan_from_annual_debt_service(m, annual_debt_service) ==
    LET factor(r, growth) == RDiv(RSub(growth, R(1)), RMul(r, growth))
        loan(monthly_payment, r, n) ==
            IF RLe(r, R(0)) THEN RMul(monthly_payment, R(n))
            ELSE RMul(monthly_payment, factor(r, RPow(RAdd(R(1), r), n)))
    IN  loan(RDiv(annual_debt_service, R(12)), DSCRLoanModel_monthly_rate(m),
             DSCRLoanModel_num_payments(m))

DSCRLoanModel_loan_by_dscr(m) ==
    IF RLe(m.min_dscr, R(0)) \/ RLe(m.noi, R(0)) THEN None
    ELSE DSCRLoanModel_loan_from_annual_debt_service(m, RDiv(m.noi, m.min_dscr))

\* a variant of loan_by_ltv that gives 0.0 where there is no loan
DSCRLoanModel_loan_by_ltv_or_zero(m) ==
    IF RLe(m.max_ltv, R(0)) \/ RLe(m.purchase_price, R(0)) THEN R(0)
    ELSE RMul(m.purchase_price, m.max_ltv)

DSCRLoanModel_loan_by_ltv(m) ==
    IF RLe(m.max_ltv, R(0)) \/ RLe(m.purchase_price, R(0)) THEN None
    ELSE RMul(m.purchase_price, m.max_ltv)

\* a variant of final_loan_amount that takes the larger of the two loans
DSCRLoanModel_final_loan_amount_larger(m) ==
    LET final(l_dscr, l_ltv) ==
            IF l_dscr = None /\ l_ltv = None THEN None
            ELSE IF l_dscr = None THEN l_ltv
            ELSE IF l_ltv = None THEN l_dscr
            ELSE RMax(l_dscr, l_ltv)
    IN  final(DSCRLoanModel_loan_by_dscr(m), DSCRLoanModel_loan_by_ltv(m))

DSCRLoanModel_final_loan_amount(m) ==
    LET final(l_dscr, l_ltv) ==
            IF l_dscr = None /\ l_ltv = None THEN None
            ELSE IF l_dscr = None THEN l_ltv
            ELSE IF l_ltv = None THEN l_dscr
            ELSE RMin(l_dscr, l_ltv)
    IN  final(DSCRLoanModel_loan_by_dscr(m), DSCRLoanModel_loan_by_ltv(m))

\* the metrics dict, or the exception _payment_for_loan raised
DSCRLoanModel_metrics_for_loan(m, loan_amount) ==
    LET rounded(v, k) == IF v # None THEN Round(v, k) ELSE None
        metrics(monthly_payment, annual_debt_service) ==
            [loan_amount         |-> Round(loan_amount, 2),
             monthly_payment     |-> Round(monthly_payment, 2),
             annual_debt_service |-> Round(annual_debt_service, 2),
             dscr |-> rounded(IF RGt(annual_debt_service, R(0))
                              THEN RDiv(m.noi, annual_debt_service) ELSE None, 3),
             ltv  |-> rounded(IF RGt(m.purchase_price, R(0))
                              THEN RDiv(loan_amount, m.purchase_price) ELSE None, 3)]
        paid(monthly_payment) ==
            IF IsRaised(monthly_payment) THEN monthly_payment
            ELSE metrics(monthly_payment, RMul(monthly_payment, R(12)))
    IN  paid(DSCRLoanModel_payment_for_loan(m, loan_amount))

\* `if final_loan` is Python truth: a final loan of 0.0 gives no metrics
DSCRLoanModel_summary(m) ==
    LET rounded(v, k) == IF v # None THEN Round(v, k) ELSE None
        field(metrics, k) == IF metrics # None THEN metrics[k] ELSE None
        summary(metrics) ==
            IF IsRaised(metrics) THEN metrics
            ELSE [inputs       |-> m,
                  loan_by_dscr |-> rounded(DSCRLoanModel_loan_by_dscr(m), 2),
                  loan_by_ltv  |-> rounded(DSCRLoanModel_loan_by_ltv(m), 2),
                  final_loan_amount   |-> field(metrics, "loan_amount"),
                  monthly_payment     |-> field(metrics, "monthly_payment"),
                  annual_debt_service |-> field(metrics, "annual_debt_service"),
                  dscr_at_final_loan  |-> field(metrics, "dscr"),
                  ltv_at_final_loan   |-> field(metrics, "ltv")]
        sized(final_loan) ==
            summary(IF Truthy(final_loan)
                    THEN DSCRLoanModel_metrics_for_loan(m, final_loan) ELSE None)
    IN  sized(DSCRLoanModel_final_loan_amount(m))

---------------------------------------------------------------------------
(* SalesCompModel: src/models/sales_comp_model.py.  sm is the object:       *)
(* [subject, comps, max_distance_miles, min_sqft_ratio, max_sqft_ratio,     *)
(*  target_comp_count]; subject and every comp are dicts, comps a list.     *)

\* str.lower() on the strings of the model
Lower(s) ==
    CASE s = "SFR" -> "sfr"
      [] s = "Retail/Office" -> "retail/office"
      [] s = "Mixed Use" -> "mixed use"
      [] s = "Prime" -> "prime"
      [] s = "Office" -> "office"
      [] s = "Luxury" -> "luxury"
      [] s = "Stable" -> "stable"
      [] OTHER -> s

\* (x or "").lower() for a str-or-None x
LowerOrEmpty(x) == IF x = None THEN "" ELSE Lower(x[1])

Max(a, b) == IF a >= b THEN a ELSE b

Min(a, b) == IF a <= b THEN a ELSE b

SalesCompModel_normalize_subject(subject) ==
    LET beds      == Get(subject, "beds")
        baths     == Get(subject, "baths")
        sqft      == Get(subject, "sqft")
        num_units == Or(Get(subject, "num_units"), R(1))
        prop_type == LowerOrEmpty(Get(subject, "property_type"))
    IN  [beds  |-> beds,
         baths |-> baths,
         sqft  |-> sqft,
         num_units |-> num_units,
         property_type |-> IF prop_type # "" THEN prop_type ELSE "unknown"]

\* a variant whose ratio band excludes its two ends
SalesCompModel_keeps_strictly_inside(sm, comp) ==
    LET out_of_band(ratio) ==
            RLe(ratio, sm.min_sqft_ratio) \/ RGe(ratio, sm.max_sqft_ratio)
        keeps(subj_sqft, price, sqft, dist) ==
            /\ Truthy(price) /\ Truthy(sqft)
            /\ ~(dist # None /\ RGt(dist, sm.max_distance_miles))
            /\ ~(/\ Truthy(subj_sqft) /\ Truthy(sqft)
                 /\ out_of_band(RDiv(sqft, subj_sqft)))
    IN  keeps(SalesCompModel_normalize_subject(sm.subject).sqft,
              Get(comp, "price"), Get(comp, "sqft"), Get(comp, "distance_miles"))

SalesCompModel_keeps(sm, comp) ==
    LET out_of_band(ratio) ==
            RLt(ratio, sm.min_sqft_ratio) \/ RGt(ratio, sm.max_sqft_ratio)
        keeps(subj_sqft, price, sqft, dist) ==
            /\ Truthy(price) /\ Truthy(sqft)
            /\ ~(dist # None /\ RGt(dist, sm.max_distance_miles))
            /\ ~(/\ Truthy(subj_sqft) /\ Truthy(sqft)
                 /\ out_of_band(RDiv(sqft, subj_sqft)))
    IN  keeps(SalesCompModel_normalize_subject(sm.subject).sqft,
              Get(comp, "price"), Get(comp, "sqft"), Get(comp, "distance_miles"))

\* a variant that also drops the comps whose distance is unknown
SalesCompModel_filter_comps_with_distance(sm) ==
    SelectSeq(sm.comps, LAMBDA comp :
        SalesCompModel_keeps(sm, comp) /\ Get(comp, "distance_miles") # None)

SalesCompModel_filter_comps(sm) ==
    SelectSeq(sm.comps, LAMBDA comp : SalesCompModel_keeps(sm, comp))

\* a variant that leaves the score as the penalties give it
SalesCompModel_normalize_comp_unclamped(sm, comp) ==
    LET normalized(ppsf, ppu, score) ==
            [price_per_sqft   |-> ppsf,
             price_per_unit   |-> ppu,
             similarity_score |-> score] @@ comp
        p_diff(subj_value, value, weight) ==
            IF subj_value # None /\ value # None
            THEN RMul(RAbs(RSub(value, subj_value)), R(weight)) ELSE R(0)
        p_sqft(subj_sqft, sqft) ==
            IF Truthy(subj_sqft) /\ Truthy(sqft)
            THEN RMul(RAbs(RSub(R(1), RDiv(sqft, subj_sqft))), R(30)) ELSE R(0)
        p_units(subj_units, units) ==
            IF Truthy(subj_units) /\ Truthy(units)
            THEN RMul(RAbs(RSub(units, subj_units)), R(3)) ELSE R(0)
        p_type(subj_type, prop_type) ==
            IF subj_type # "unknown" /\ prop_type # "" /\ subj_type # prop_type
            THEN R(10) ELSE R(0)
        scored(subj, price, sqft, units, distance) ==
            normalized(
                IF RGt(sqft, R(0)) THEN RDiv(price, sqft) ELSE None,
                IF RGt(units, R(0)) THEN RDiv(price, units) ELSE None,
                RSub(RSub(RSub(RSub(RSub(RSub(R(100),
                    p_diff(subj.beds, Get(comp, "beds"), 5)),
                    p_diff(subj.baths, Get(comp, "baths"), 4)),
                    p_sqft(subj.sqft, sqft)),
                    p_units(subj.num_units, units)),
                    p_type(subj.property_type, LowerOrEmpty(Get(comp, "property_type")))),
                    RMul(RMin(distance, R(5)), R(2))))
    IN  scored(SalesCompModel_normalize_subject(sm.subject),
               Or(Get(comp, "price"), R(0)),
               Or(Get(comp, "sqft"), R(0)),
               Or(Get(comp, "num_units"), R(1)),
               Or(Get(comp, "distance_miles"), R(0)))

SalesCompModel_normalize_comp(sm, comp) ==
    LET normalized(ppsf, ppu, score) ==
            [price_per_sqft   |-> ppsf,
             price_per_unit   |-> ppu,
             similarity_score |-> RMax(R(0), RMin(R(100), score))] @@ comp
        p_diff(subj_value, value, weight) ==
            IF subj_value # None /\ value # None
            THEN RMul(RAbs(RSub(value, subj_value)), R(weight)) ELSE R(0)
        p_sqft(subj_sqft, sqft) ==
            IF Truthy(subj_sqft) /\ Truthy(sqft)
            THEN RMul(RAbs(RSub(R(1), RDiv(sqft, subj_sqft))), R(30)) ELSE R(0)
        p_units(subj_units, units) ==
            IF Truthy(subj_units) /\ Truthy(units)
            THEN RMul(RAbs(RSub(units, subj_units)), R(3)) ELSE R(0)
        p_type(subj_type, prop_type) ==
            IF subj_type # "unknown" /\ prop_type # "" /\ subj_type # prop_type
            THEN R(10) ELSE R(0)
        scored(subj, price, sqft, units, distance) ==
            normalized(
                IF RGt(sqft, R(0)) THEN RDiv(price, sqft) ELSE None,
                IF RGt(units, R(0)) THEN RDiv(price, units) ELSE None,
                RSub(RSub(RSub(RSub(RSub(RSub(R(100),
                    p_diff(subj.beds, Get(comp, "beds"), 5)),
                    p_diff(subj.baths, Get(comp, "baths"), 4)),
                    p_sqft(subj.sqft, sqft)),
                    p_units(subj.num_units, units)),
                    p_type(subj.property_type, LowerOrEmpty(Get(comp, "property_type")))),
                    RMul(RMin(distance, R(5)), R(2))))
    IN  scored(SalesCompModel_normalize_subject(sm.subject),
               Or(Get(comp, "price"), R(0)),
               Or(Get(comp, "sqft"), R(0)),
               Or(Get(comp, "num_units"), R(1)),
               Or(Get(comp, "distance_miles"), R(0)))

\* list.sort(key = similarity_score, reverse = True): stable, equal scores keep
\* their order
RECURSIVE SalesCompModel_sorted_by_similarity(_)
SalesCompModel_sorted_by_similarity(comps) ==
    IF comps = <<>> THEN <<>>
    ELSE LET insert(c, rest, k) ==
                 SubSeq(rest, 1, k) \o <<c>> \o SubSeq(rest, k + 1, Len(rest))
             place(c, rest) ==
                 insert(c, rest, Cardinality({i \in 1..Len(rest) :
                     RGt(rest[i].similarity_score, c.similarity_score)}))
         IN  place(Head(comps), SalesCompModel_sorted_by_similarity(Tail(comps)))

\* a variant that trims the comps in the order they were given
SalesCompModel_normalized_comps_unranked(sm) ==
    LET trimmed(ranked) == SubSeq(ranked, 1, Min(Len(ranked), sm.target_comp_count))
        normalized(filtered) ==
            [i \in 1..Len(filtered) |-> SalesCompModel_normalize_comp(sm, filtered[i])]
    IN  trimmed(normalized(SalesCompModel_filter_comps(sm)))

\* normalized[: target_comp_count] is the slice of a list: a count below zero
\* is taken from the end
SalesCompModel_normalized_comps(sm) ==
    LET trimmed(ranked) ==
            SubSeq(ranked, 1, IF sm.target_comp_count >= 0
                              THEN Min(Len(ranked), sm.target_comp_count)
                              ELSE Max(0, Len(ranked) + sm.target_comp_count))
        normalized(filtered) ==
            [i \in 1..Len(filtered) |-> SalesCompModel_normalize_comp(sm, filtered[i])]
    IN  trimmed(SalesCompModel_sorted_by_similarity(
            normalized(SalesCompModel_filter_comps(sm))))

\* sorted(values)
RECURSIVE Sorted(_)
Sorted(values) ==
    IF values = <<>> THEN <<>>
    ELSE LET insert(v, rest, k) ==
                 SubSeq(rest, 1, k) \o <<v>> \o SubSeq(rest, k + 1, Len(rest))
             place(v, rest) ==
                 insert(v, rest, Cardinality({i \in 1..Len(rest) : RLt(rest[i], v)}))
         IN  place(Head(values), Sorted(Tail(values)))

\* statistics.median of a sorted non-empty list
Median(values_sorted) ==
    LET n == Len(values_sorted)
    IN  IF n % 2 = 1 THEN values_sorted[(n \div 2) + 1]
        ELSE RDiv(RAdd(values_sorted[n \div 2], values_sorted[(n \div 2) + 1]), R(2))

\* values_sorted[max(0, int(n * 0.20) - 1)], the list indexed from 0
SalesCompModel_low(values_sorted) ==
    values_sorted[Max(0, (Len(values_sorted) \div 5) - 1) + 1]

\* a variant that takes the high band at the 20 % index
SalesCompModel_high_at_fifth(values_sorted) ==
    values_sorted[Min(Len(values_sorted) - 1, Len(values_sorted) \div 5) + 1]

\* values_sorted[min(n - 1, int(n * 0.80))], the list indexed from 0
SalesCompModel_high(values_sorted) ==
    values_sorted[Min(Len(values_sorted) - 1, (4 * Len(values_sorted)) \div 5) + 1]

\* [median, low, high] of the truthy values under key, all None without one
SalesCompModel_stats(comps, key) ==
    LET stats(values_sorted) ==
            IF values_sorted = <<>> THEN [median |-> None, low |-> None, high |-> None]
            ELSE [median |-> Median(values_sorted),
                  low    |-> SalesCompModel_low(values_sorted),
                  high   |-> SalesCompModel_high(values_sorted)]
        values(with_key) == [i \in 1..Len(with_key) |-> with_key[i][key]]
    IN  stats(Sorted(values(SelectSeq(comps, LAMBDA c : Truthy(Get(c, key))))))

\* a variant that reports 0 where there is no value
SalesCompModel_ppsf_stats_or_zero(comps) ==
    LET named(st) ==
            [median_ppsf |-> Or(st.median, R(0)), low_ppsf |-> Or(st.low, R(0)),
             high_ppsf |-> Or(st.high, R(0))]
    IN  named(SalesCompModel_stats(comps, "price_per_sqft"))

SalesCompModel_ppsf_stats(comps) ==
    LET named(st) ==
            [median_ppsf |-> st.median, low_ppsf |-> st.low, high_ppsf |-> st.high]
    IN  named(SalesCompModel_stats(comps, "price_per_sqft"))

SalesCompModel_ppu_stats(comps) ==
    LET named(st) ==
            [median_ppu |-> st.median, low_ppu |-> st.low, high_ppu |-> st.high]
    IN  named(SalesCompModel_stats(comps, "price_per_unit"))

SalesCompModel_subject_value_from_ppsf(sm, ppsf) ==
    LET value(sqft) == IF ppsf = None \/ ~Truthy(sqft) THEN None ELSE RMul(ppsf, sqft)
    IN  value(SalesCompModel_normalize_subject(sm.subject).sqft)

\* a variant that leaves the subject's unit count out
SalesCompModel_subject_value_from_ppu_of_one(sm, ppu) ==
    LET value(units) == IF ppu = None \/ RLe(units, R(0)) THEN None ELSE ppu
    IN  value(Or(SalesCompModel_normalize_subject(sm.subject).num_units, R(1)))

SalesCompModel_subject_value_from_ppu(sm, ppu) ==
    LET value(units) == IF ppu = None \/ RLe(units, R(0)) THEN None ELSE RMul(ppu, units)
    IN  value(Or(SalesCompModel_normalize_subject(sm.subject).num_units, R(1)))

\* min(candidates) / max(candidates) over the truthy ones of two values
MinOfTruthy(a, b) ==
    IF Truthy(a) /\ Truthy(b) THEN RMin(a, b)
    ELSE IF Truthy(a) THEN a ELSE IF Truthy(b) THEN b ELSE None

MaxOfTruthy(a, b) ==
    IF Truthy(a) /\ Truthy(b) THEN RMax(a, b)
    ELSE IF Truthy(a) THEN a ELSE IF Truthy(b) THEN b ELSE None

\* a variant that adds the values up without dividing
SumOfTruthy(a, b) ==
    IF Truthy(a) /\ Truthy(b) THEN RAdd(a, b)
    ELSE IF Truthy(a) THEN a ELSE IF Truthy(b) THEN b ELSE None

\* sum(candidates) / len(candidates) over the truthy ones of two values
MeanOfTruthy(a, b) ==
    IF Truthy(a) /\ Truthy(b) THEN RDiv(RAdd(a, b), R(2))
    ELSE IF Truthy(a) THEN a ELSE IF Truthy(b) THEN b ELSE None

SalesCompNotes == "Sales comparison results are heuristic and should be benchmarked against professional appraisals."

SalesCompModel_summary(sm) ==
    LET summary(comps_norm, ppsf_stats, ppu_stats, value_ppsf_med, value_ppu_med) ==
            [subject |-> SalesCompModel_normalize_subject(sm.subject),
             normalized_comps |-> comps_norm,
             stats |-> ppu_stats @@ ppsf_stats,
             value_estimates |->
                 [value_by_ppsf_median |-> value_ppsf_med,
                  value_by_ppu_median  |-> value_ppu_med,
                  base_value |-> MeanOfTruthy(value_ppsf_med, value_ppu_med),
                  low_value  |-> MinOfTruthy(
                      SalesCompModel_subject_value_from_ppsf(sm, ppsf_stats.low_ppsf),
                      SalesCompModel_subject_value_from_ppu(sm, ppu_stats.low_ppu)),
                  high_value |-> MaxOfTruthy(
                      SalesCompModel_subject_value_from_ppsf(sm, ppsf_stats.high_ppsf),
                      SalesCompModel_subject_value_from_ppu(sm, ppu_stats.high_ppu))],
             notes |-> SalesCompNotes]
        valued(comps_norm, ppsf_stats, ppu_stats) ==
            summary(comps_norm, ppsf_stats, ppu_stats,
                    SalesCompModel_subject_value_from_ppsf(sm, ppsf_stats.median_ppsf),
                    SalesCompModel_subject_value_from_ppu(sm, ppu_stats.median_ppu))
        analysed(comps_norm) ==
            valued(comps_norm, SalesCompModel_ppsf_stats(comps_norm),
                   SalesCompModel_ppu_stats(comps_norm))
    IN  analysed(SalesCompModel_normalized_comps(sm))

\* _normalize_comp(comp) on the heap of dict objects, heap[id] the dict of
\* identity id: `normalized = dict(comp)` is a new object and the update acts
\* on it.  A variant that updates the comp it is given.
SalesCompModel_normalize_comp_on_heap_in_place(sm, heap, id) ==
    [heap |-> [heap EXCEPT ![id] = SalesCompModel_normalize_comp(sm, heap[id])],
     returned |-> id]

SalesCompModel_normalize_comp_on_heap(sm, heap, id) ==
    [heap |-> Append(heap, SalesCompModel_normalize_comp(sm, heap[id])),
     returned |-> Len(heap) + 1]

\* the heap after [self._normalize_comp(c) for c in filtered]
RECURSIVE SalesCompModel_heap_after_normalizing(_, _, _)
SalesCompModel_heap_after_normalizing(sm, heap, ids) ==
    IF ids = <<>> THEN heap
    ELSE SalesCompModel_heap_after_normalizing(
             sm, SalesCompModel_normalize_comp_on_heap(sm, heap, Head(ids)).heap, Tail(ids))

\* the object after summary(): self.comps[i] is the object of identity i;
\* _filter_comps appends the objects it keeps to a new list, the sort and the
\* slice of _normalized_comps act on the new list of normalized dicts, and no
\* method assigns an attribute of self
SalesCompModel_after_summary(sm) ==
    LET ids == SelectSeq([i \in 1..Len(sm.comps) |-> i],
                         LAMBDA i : SalesCompModel_keeps(sm, sm.comps[i]))
        after(heap) == [sm EXCEPT !.comps = SubSeq(heap, 1, Len(sm.comps))]
    IN  after(SalesCompModel_heap_after_normalizing(sm, sm.comps, ids))

---------------------------------------------------------------------------
(* The weighted-average RecommendationEngine:                               *)
(* src/models/recommendation_engine_2.py.  e is the object:                 *)
(* [dscr_summary, cap_rate_summary, valuation_summary, cash_on_cash,        *)
(*  sales_comparison]; risk_score, risk_grade and jurisdiction are stored   *)
(* by __init__ and read by no method.                                       *)

RecommendationEngine2_inactive(details) ==
    [active |-> FALSE, score |-> None, rating |-> "unknown", details |-> details]

\* the scoring ladder on pct_diff
RecommendationEngine2_sales_rating(pct_diff) ==
    IF RGe(pct_diff, <<1, 5>>) THEN [rating |-> "strong_buy", score |-> R(5)]
    ELSE IF RGe(pct_diff, <<1, 10>>) THEN [rating |-> "buy", score |-> R(4)]
    ELSE IF RGe(pct_diff, <<-1, 20>>) THEN [rating |-> "neutral", score |-> R(3)]
    ELSE IF RGe(pct_diff, <<-3, 20>>) THEN [rating |-> "weak", score |-> R(2)]
    ELSE [rating |-> "pass", score |-> R(1)]

RecommendationEngine2_sales_comparison_score(e) ==
    LET active(median_value, purchase_price, pct_diff, rated) ==
            [active |-> TRUE, score |-> rated.score, rating |-> rated.rating,
             pct_diff |-> Round(pct_diff, 4), median_value |-> median_value,
             purchase_price |-> purchase_price]
        rate(median_value, purchase_price, pct_diff) ==
            active(median_value, purchase_price, pct_diff,
                   RecommendationEngine2_sales_rating(pct_diff))
        score(median_value, purchase_price) ==
            IF ~Truthy(median_value) \/ ~Truthy(purchase_price)
            THEN RecommendationEngine2_inactive("Missing purchase price or comp estimate.")
            ELSE rate(median_value, purchase_price,
                      RDiv(RSub(median_value, purchase_price), purchase_price))
    IN  IF DOMAIN e.sales_comparison = {} \/ ~GetD(e.sales_comparison, "success", FALSE)
        THEN RecommendationEngine2_inactive("No valid sales comps provided.")
        ELSE score(Get(e.sales_comparison, "comp_value_estimate"),
                   Get(e.valuation_summary, "purchase_price"))

\* a variant whose top cap-rate score is 5
RecommendationEngine2_cap_score_up_to_5(e) ==
    LET score(cap_rate) ==
            IF cap_rate # None
            THEN IF RGe(cap_rate, <<3, 50>>) THEN R(5)
                 ELSE IF RGe(cap_rate, <<1, 20>>) THEN R(3)
                 ELSE R(2)
            ELSE None
    IN  score(Get(e.cap_rate_summary, "final_cap_rate"))

RecommendationEngine2_cap_score(e) ==
    LET score(cap_rate) ==
            IF cap_rate # None
            THEN IF RGe(cap_rate, <<3, 50>>) THEN R(4)
                 ELSE IF RGe(cap_rate, <<1, 20>>) THEN R(3)
                 ELSE R(2)
            ELSE None
    IN  score(Get(e.cap_rate_summary, "final_cap_rate"))

RecommendationEngine2_dscr_score(e) ==
    LET dscr_ok == GetD(e.dscr_summary, "meets_min_dscr", FALSE)
    IN  IF dscr_ok THEN R(4) ELSE R(1)

RecommendationEngine2_coc_score(e) ==
    IF e.cash_on_cash # None
    THEN IF RGe(e.cash_on_cash, <<7, 100>>) THEN R(4)
         ELSE IF RGe(e.cash_on_cash, <<1, 20>>) THEN R(3)
         ELSE IF RGe(e.cash_on_cash, <<3, 100>>) THEN R(2)
         ELSE R(1)
    ELSE None

\* sum(scores)
RECURSIVE Sum(_)
Sum(scores) ==
    IF scores = <<>> THEN R(0) ELSE RAdd(Head(scores), Sum(Tail(scores)))

\* sum(all_scores) / len(all_scores) if all_scores else 0
RecommendationEngine2_final_score(all_scores) ==
    IF all_scores # <<>> THEN RDiv(Sum(all_scores), R(Len(all_scores))) ELSE R(0)

\* a variant of the thresholds that gives BUY from 4.0 on
RecommendationEngine2_final_rating_buy_from_4(final_score) ==
    IF RGe(final_score, R(4)) THEN "BUY"
    ELSE IF RGe(final_score, <<16, 5>>) THEN "WATCH"
    ELSE "PASS"

\* the thresholds, applied to the unrounded score
RecommendationEngine2_final_rating(final_score) ==
    IF RGe(final_score, <<21, 5>>) THEN "BUY"
    ELSE IF RGe(final_score, <<16, 5>>) THEN "WATCH"
    ELSE "PASS"

RecommendationEngine2_recommend(e) ==
    LET result_of(sales_score_data, cap_score, dscr_score, coc_score, final_score) ==
            [final_recommendation |-> RecommendationEngine2_final_rating(final_score),
             final_score |-> Round(final_score, 3),
             components  |-> [sales_comparison   |-> sales_score_data,
                              cap_rate_score     |-> cap_score,
                              dscr_score         |-> dscr_score,
                              cash_on_cash_score |-> coc_score]]
        aggregate(sales_score_data, cap_score, dscr_score, coc_score) ==
            result_of(sales_score_data, cap_score, dscr_score, coc_score,
                      RecommendationEngine2_final_score(
                          SelectSeq(<<sales_score_data.score, cap_score, dscr_score,
                                      coc_score>>, LAMBDA s : s # None)))
    IN  aggregate(RecommendationEngine2_sales_comparison_score(e),
                  RecommendationEngine2_cap_score(e),
                  RecommendationEngine2_dscr_score(e),
                  RecommendationEngine2_coc_score(e))

---------------------------------------------------------------------------
(* The MarketConfidenceScorer: the ConfidenceScore of a comparable-set      *)
(* summary, the dict that NarrativeBuilder and the report read as           *)
(* market_confidence.  summary is the dict of SalesCompModel.summary().     *)

\* base score from the number of comps in the summary
MarketConfidenceScorer_base_score(count) ==
    IF count >= 8 THEN R(5)
    ELSE IF count >= 5 THEN R(4)
    ELSE IF count >= 3 THEN R(3)
    ELSE IF count >= 2 THEN R(2)
    ELSE R(1)

\* adjustment from the mean distance over the comps whose distance is known,
\* None without one
MarketConfidenceScorer_distance_adjustment(comps) ==
    LET adjustment(distances) ==
            IF distances = <<>> THEN None
            ELSE LET banded(mean) ==
                         IF RLe(mean, <<1, 4>>) THEN <<1, 2>>
                         ELSE IF RLe(mean, <<1, 2>>) THEN <<1, 4>>
                         ELSE IF RLe(mean, R(1)) THEN R(0)
                         ELSE IF RLe(mean, R(2)) THEN <<-1, 4>>
                         ELSE <<-1, 2>>
                 IN  banded(RDiv(Sum(distances), R(Len(distances))))
        values(known) == [i \in 1..Len(known) |-> known[i].distance_miles]
    IN  adjustment(values(SelectSeq(comps, LAMBDA c : Get(c, "distance_miles") # None)))

\* adjustment from the spread (high - low) / median of the price per area,
\* None where the statistics are undefined
MarketConfidenceScorer_spread_adjustment(stats) ==
    LET median == Get(stats, "median_ppsf")
        low    == Get(stats, "low_ppsf")
        high   == Get(stats, "high_ppsf")
    IN  IF median = None \/ low = None \/ high = None \/ ~Truthy(median) THEN None
        ELSE LET banded(spread) ==
                     IF RLe(spread, <<3, 20>>) THEN <<1, 2>>
                     ELSE IF RLe(spread, <<3, 10>>) THEN R(0)
                     ELSE <<-1, 2>>
             IN  banded(RDiv(RSub(high, low), median))

MarketConfidenceScorer_level(score) ==
    IF RGe(score, <<17, 4>>) THEN "high"
    ELSE IF RGe(score, <<11, 4>>) THEN "medium"
    ELSE "low"

MarketConfidenceScorer_score(summary) ==
    LET scored(base, distance_adj, spread_adj) ==
            LET clamped(score) ==
                    [level |-> MarketConfidenceScorer_level(score),
                     score |-> score,
                     contributing_factors |->
                         [base_score |-> base,
                          distance_adjustment |-> distance_adj,
                          spread_adjustment |-> spread_adj]]
            IN  clamped(RMax(R(1), RMin(R(5),
                    RAdd(base, RAdd(Or(distance_adj, R(0)), Or(spread_adj, R(0)))))))
        comps == Get(summary, "normalized_comps")
    IN  IF comps = <<>>
        THEN [level |-> "unknown", score |-> None, contributing_factors |-> <<>>]
        ELSE scored(MarketConfidenceScorer_base_score(Len(comps)),
                    MarketConfidenceScorer_distance_adjustment(comps),
                    MarketConfidenceScorer_spread_adjustment(Get(summary, "stats")))

---------------------------------------------------------------------------
(* CapRateModel: src/models/cap_rate_model.py.  c is the object:            *)
(* [property_type, submarket_class, risk_score, is_rent_controlled], the    *)
(* two strings already lower-cased by __init__.                             *)

CapRateModel_init(property_type, submarket_class, risk_score, is_rent_controlled) ==
    [property_type      |-> LowerOrEmpty(property_type),
     submarket_class    |-> LowerOrEmpty(submarket_class),
     risk_score         |-> risk_score,
     is_rent_controlled |-> is_rent_controlled]

\* one row of the grid: prime, core, stable, transitional, distressed (in 1/10000)
CapRateModel_row(prime, core, stable, transitional, distressed) ==
    [prime        |-> Norm(prime, 10000),
     core         |-> Norm(core, 10000),
     stable       |-> Norm(stable, 10000),
     transitional |-> Norm(transitional, 10000),
     distressed   |-> Norm(distressed, 10000)]

CapRateModel_base_cap_rate_grid ==
    [sfr        |-> CapRateModel_row(350, 400, 425, 450, 500),
     mixed_use  |-> CapRateModel_row(425, 475, 500, 525, 575),
     retail     |-> CapRateModel_row(450, 500, 525, 550, 600),
     office     |-> CapRateModel_row(500, 550, 600, 650, 700),
     industrial |-> CapRateModel_row(400, 450, 475, 500, 550),
     land       |-> CapRateModel_row(200, 250, 300, 350, 400)]
    @@ ("2-4" :> CapRateModel_row(375, 425, 450, 475, 525))
    @@ ("5+"  :> CapRateModel_row(400, 450, 475, 500, 550))

\* a variant that prices an unrecognized type as "sfr"
CapRateModel_base_cap_rate_as_sfr(c) ==
    LET cell(row, s_class) == row[s_class]
        in_row(row) ==
            cell(row, IF c.submarket_class \notin DOMAIN row
                      THEN "stable" ELSE c.submarket_class)
        lookup(grid) ==
            in_row(grid[IF c.property_type \notin DOMAIN grid
                        THEN "sfr" ELSE c.property_type])
    IN  lookup(CapRateModel_base_cap_rate_grid)

CapRateModel_base_cap_rate(c) ==
    LET cell(row, s_class) == row[s_class]
        in_row(row) ==
            cell(row, IF c.submarket_class \notin DOMAIN row
                      THEN "stable" ELSE c.submarket_class)
        lookup(grid) ==
            in_row(grid[IF c.property_type \notin DOMAIN grid
                        THEN "5+" ELSE c.property_type])
    IN  lookup(CapRateModel_base_cap_rate_grid)

\* a variant whose two lowest bands are exchanged
CapRateModel_risk_adjustment_bps_dipping(c) ==
    LET band(rs) ==
            IF RLt(rs, R(20)) THEN <<-1, 2000>>
            ELSE IF RLt(rs, R(40)) THEN <<-1, 1000>>
            ELSE IF RLt(rs, R(60)) THEN R(0)
            ELSE IF RLt(rs, R(80)) THEN <<1, 500>>
            ELSE <<3, 400>>
    IN  IF c.risk_score = None THEN R(0)
        ELSE band(RMax(R(0), RMin(R(100), c.risk_score)))

CapRateModel_risk_adjustment_bps(c) ==
    LET band(rs) ==
            IF RLt(rs, R(20)) THEN <<-1, 1000>>
            ELSE IF RLt(rs, R(40)) THEN <<-1, 2000>>
            ELSE IF RLt(rs, R(60)) THEN R(0)
            ELSE IF RLt(rs, R(80)) THEN <<1, 500>>
            ELSE <<3, 400>>
    IN  IF c.risk_score = None THEN R(0)
        ELSE band(RMax(R(0), RMin(R(100), c.risk_score)))

\* a variant whose steps leave 0.04 and 0.05 to the band above
CapRateModel_rent_control_adjustment_bps_below(c, base_cap) ==
    IF ~c.is_rent_controlled THEN R(0)
    ELSE IF RLt(base_cap, <<1, 25>>) THEN <<3, 1000>>
    ELSE IF RLt(base_cap, <<1, 20>>) THEN <<1, 250>>
    ELSE <<1, 200>>

CapRateModel_rent_control_adjustment_bps(c, base_cap) ==
    IF ~c.is_rent_controlled THEN R(0)
    ELSE IF RLe(base_cap, <<1, 25>>) THEN <<3, 1000>>
    ELSE IF RLe(base_cap, <<1, 20>>) THEN <<1, 250>>
    ELSE <<1, 200>>

CapRateModel_adjusted_cap_rate(c) ==
    LET adj(base) == RAdd(RAdd(base, CapRateModel_risk_adjustment_bps(c)),
                          CapRateModel_rent_control_adjustment_bps(c, base))
    IN  Round(adj(CapRateModel_base_cap_rate(c)), 4)

CapRateNotes == "Cap rates are heuristic and must be benchmarked against real LA market comps."

CapRateModel_summary(c) ==
    LET summary(base) ==
            [inputs |-> c,
             base_cap_rate  |-> base,
             risk_adjustment |-> CapRateModel_risk_adjustment_bps(c),
             rent_control_adjustment |-> CapRateModel_rent_control_adjustment_bps(c, base),
             final_cap_rate |-> CapRateModel_adjusted_cap_rate(c),
             notes |-> CapRateNotes]
    IN  summary(CapRateModel_base_cap_rate(c))

---------------------------------------------------------------------------
(* IncomeApproach: src/models/income_approach.py *)

\* the parameters of __init__ and the ones without a default
IncomeApproach_parameters ==
    {"monthly_market_rent", "num_units", "vacancy_rate", "operating_expense_ratio"}

IncomeApproach_required == {"monthly_market_rent", "num_units"}

\* the methods the class defines
IncomeApproach_methods ==
    {"gsr", "vacancy_loss", "effective_gross_income", "operating_expenses", "noi",
     "cap_rate_value"}

\* IncomeApproach(**kwargs): Python binds the keywords to the parameters and
\* raises TypeError for an unexpected keyword or a missing required one
IncomeApproach_init(kwargs) ==
    IF \/ ~(DOMAIN kwargs \subseteq IncomeApproach_parameters)
       \/ ~(IncomeApproach_required \subseteq DOMAIN kwargs)
    THEN TypeError
    ELSE [rent  |-> kwargs.monthly_market_rent,
          units |-> kwargs.num_units,
          vacancy_rate |-> GetD(kwargs, "vacancy_rate", <<1, 20>>),
          op_ex_ratio  |-> GetD(kwargs, "operating_expense_ratio", <<7, 20>>)]

---------------------------------------------------------------------------
(* The bucket RecommendationEngine: src/models/recommendation_engine.py.    *)
(* b is the object: [risk_score, risk_grade, dscr_summary,                  *)
(* cap_rate_summary, valuation_summary, cash_on_cash, jurisdiction_flags].  *)

\* str.upper() on the risk grades of the model
Upper(s) == IF s = "b" THEN "B" ELSE s

RecommendationEngine_init(risk_score, risk_grade, dscr_summary, cap_rate_summary, valuation_summary, cash_on_cash, jurisdiction_flags) ==
    [risk_score   |-> risk_score,
     risk_grade   |-> IF risk_grade # None /\ risk_grade[1] # ""
                      THEN <<Upper(risk_grade[1])>> ELSE None,
     dscr_summary |-> dscr_summary,
     cap_rate_summary   |-> cap_rate_summary,
     valuation_summary  |-> valuation_summary,
     cash_on_cash       |-> cash_on_cash,
     jurisdiction_flags |-> jurisdiction_flags]

\* pct_diff(val) inside _price_vs_value
RecommendationEngine_pct_diff(val, purchase_price) ==
    IF val = None \/ RLe(val, R(0)) THEN None
    ELSE Round(RDiv(RSub(val, purchase_price), val), 4)

RecommendationEngine_price_vs_value(b) ==
    LET compared(purchase_price, as_is_value, stabilized_value) ==
            IF ~Truthy(purchase_price)
            THEN [has_data |-> FALSE,
                  discount_to_as_is_pct |-> None,
                  discount_to_stabilized_pct |-> None]
            ELSE [has_data |-> TRUE,
                  discount_to_as_is_pct |->
                      RecommendationEngine_pct_diff(as_is_value, purchase_price),
                  discount_to_stabilized_pct |->
                      RecommendationEngine_pct_diff(stabilized_value, purchase_price)]
    IN  compared(Get(b.valuation_summary, "purchase_price"),
                 Get(b.valuation_summary, "as_is_value"),
                 Get(b.valuation_summary, "stabilized_value"))

RecommendationEngine_risk_bucket(b) ==
    IF b.risk_score = None THEN "none"
    ELSE IF RLt(b.risk_score, R(25)) THEN "very_low"
    ELSE IF RLt(b.risk_score, R(50)) THEN "low"
    ELSE IF RLt(b.risk_score, R(70)) THEN "moderate"
    ELSE IF RLt(b.risk_score, R(85)) THEN "high"
    ELSE "very_high"

RecommendationEngine_is_rent_controlled(b) ==
    GetD(b.jurisdiction_flags, "is_rent_controlled", FALSE)

\* the contributions to (score_buy, score_watch, score_pass), one triple per
\* block of _score_buy_watch_pass, each in the order buy, watch, pass
RecommendationEngine_contributions(b) ==
    LET zero     == <<R(0), R(0), R(0)>>
        buy(x)   == <<x, R(0), R(0)>>
        watch(x) == <<R(0), x, R(0)>>
        pass(x)  == <<R(0), R(0), x>>
        risk(rb) ==
            CASE rb = "very_low"  -> buy(R(2))
              [] rb = "low"       -> buy(<<3, 2>>)
              [] rb = "moderate"  -> watch(R(1))
              [] rb = "high"      -> pass(<<3, 2>>)
              [] rb = "very_high" -> pass(<<5, 2>>)
              [] OTHER -> zero
        grade(risk_grade) ==
            IF risk_grade = None THEN zero
            ELSE IF risk_grade[1] \in {"A", "B"} THEN buy(<<3, 2>>)
            ELSE IF risk_grade[1] = "C" THEN watch(R(1))
            ELSE IF risk_grade[1] \in {"D", "F"} THEN pass(<<3, 2>>)
            ELSE zero
        coverage(dscr) ==
            IF dscr = None THEN zero
            ELSE IF RGe(dscr, <<7, 5>>) THEN buy(<<3, 2>>)
            ELSE IF RGe(dscr, <<6, 5>>) THEN buy(R(1))
            ELSE IF RGe(dscr, <<11, 10>>) THEN watch(R(1))
            ELSE pass(<<3, 2>>)
        leverage(ltv) ==
            IF ltv = None THEN zero
            ELSE IF RLe(ltv, <<13, 20>>) THEN buy(<<1, 2>>)
            ELSE IF RLe(ltv, <<3, 4>>) THEN watch(<<1, 2>>)
            ELSE pass(<<1, 2>>)
        as_is(has_data, disc_as_is) ==
            IF ~has_data \/ disc_as_is = None THEN zero
            ELSE IF RGe(disc_as_is, <<1, 10>>) THEN buy(<<3, 2>>)
            ELSE IF RGe(disc_as_is, <<1, 20>>) THEN buy(R(1))
            ELSE IF RGe(disc_as_is, R(0)) THEN watch(<<1, 2>>)
            ELSE pass(<<1, 2>>)
        stabilized(has_data, disc_stab) ==
            IF has_data /\ disc_stab # None /\ RGe(disc_stab, <<3, 20>>)
            THEN buy(R(1)) ELSE zero
        spread(diff) ==
            IF RGe(diff, <<1, 200>>) THEN buy(R(1))
            ELSE IF RGe(diff, R(0)) THEN watch(<<1, 2>>)
            ELSE pass(<<1, 2>>)
        yield(final_cap, base_cap) ==
            IF ~(Truthy(final_cap) /\ Truthy(base_cap)) THEN zero
            ELSE spread(RSub(final_cap, base_cap))
        cash(coc) ==
            IF coc = None THEN zero
            ELSE IF RGe(coc, <<2, 25>>) THEN buy(R(1))
            ELSE IF RGe(coc, <<1, 20>>) THEN watch(<<3, 4>>)
            ELSE pass(<<1, 2>>)
        blocks(pv) ==
            << \* 1) risk factor and risk grade overlay
               risk(RecommendationEngine_risk_bucket(b)),
               grade(b.risk_grade),
               \* 2) DSCR
               coverage(Get(b.dscr_summary, "dscr_at_final_loan")),
               leverage(Get(b.dscr_summary, "ltv_at_final_loan")),
               \* 3) price vs value
               as_is(pv.has_data, pv.discount_to_as_is_pct),
               stabilized(pv.has_data, pv.discount_to_stabilized_pct),
               \* 4) yield metrics
               yield(Get(b.cap_rate_summary, "final_cap_rate"),
                     Get(b.cap_rate_summary, "base_cap_rate")),
               cash(b.cash_on_cash),
               \* rent control pressure
               IF RecommendationEngine_is_rent_controlled(b)
               THEN <<R(0), <<1, 4>>, <<1, 4>>>> ELSE zero >>
    IN  blocks(RecommendationEngine_price_vs_value(b))

RecommendationEngine_score_buy_watch_pass(b) ==
    LET total(parts, i) == Sum([k \in 1..Len(parts) |-> parts[k][i]])
        scores(parts) ==
            [score_buy   |-> Round(total(parts, 1), 3),
             score_watch |-> Round(total(parts, 2), 3),
             score_pass  |-> Round(total(parts, 3), 3)]
    IN  scores(RecommendationEngine_contributions(b))

RecommendationEngine_decision_from_scores(scores) ==
    LET decision(buy, watch, pss) ==
            IF RGe(buy, watch) /\ RGe(buy, pss) THEN "BUY"
            ELSE IF RGe(pss, buy) /\ RGe(pss, watch) THEN "PASS"
            ELSE "WATCH"
    IN  decision(scores.score_buy, scores.score_watch, scores.score_pass)

\* the reasons of _build_reasoning, each sentence stood for by its kind
RecommendationEngine_build_reasoning(b, decision) ==
    LET when(cond, reason) == IF cond THEN <<reason>> ELSE <<>>
        leverage(dscr, ltv) == when(dscr # None /\ ltv # None, "dscr and ltv")
        as_is(has_data, disc_as_is) ==
            IF has_data /\ disc_as_is # None
            THEN IF RGe(disc_as_is, R(0)) THEN <<"discount to as-is value">>
                 ELSE <<"premium to as-is value">>
            ELSE <<>>
        pricing(pv) ==
            as_is(pv.has_data, pv.discount_to_as_is_pct)
            \o when(pv.has_data /\ pv.discount_to_stabilized_pct # None,
                    "discount to stabilized value")
    IN  when(RecommendationEngine_risk_bucket(b) # "none", "risk profile")
        \o when(b.risk_grade # None, "risk grade")
        \o leverage(Get(b.dscr_summary, "dscr_at_final_loan"),
                    Get(b.dscr_summary, "ltv_at_final_loan"))
        \o pricing(RecommendationEngine_price_vs_value(b))
        \o when(Truthy(Get(b.cap_rate_summary, "final_cap_rate"))
                /\ Truthy(Get(b.cap_rate_summary, "base_cap_rate")), "cap rate")
        \o when(b.cash_on_cash # None, "cash-on-cash")
        \o when(RecommendationEngine_is_rent_controlled(b), "rent control")
        \o <<decision>>

RecommendationEngine_recommend(b) ==
    LET recommendation(scores, decision) ==
            [decision    |-> decision,
             reasoning   |-> RecommendationEngine_build_reasoning(b, decision),
             diagnostics |-> scores]
        decided(scores) ==
            recommendation(scores, RecommendationEngine_decision_from_scores(scores))
    IN  decided(RecommendationEngine_score_buy_watch_pass(b))

---------------------------------------------------------------------------
(* AppraiserEngine: src/engine/appraiser_engine.py.  The listing parsers,   *)
(* the Apartments.com parser, the rent aggregator and the address, APN and  *)
(* zoning tools are external producers: what they return is an input of the *)
(* run (page, apartments_page, rent_estimate) or a record standing for it.  *)

\* urlparse(url).netloc.lower() on the URLs of the model
NetlocLower(url) ==
    CASE url = "https://www.zillow.com/homedetails/1" -> "www.zillow.com"
      [] url = "https://www.Redfin.com/CA/home/1"     -> "www.redfin.com"
      [] url = "https://www.realtor.com/detail/1"     -> "www.realtor.com"
      [] url = "https://www.homes.com/property/1"     -> "www.homes.com"
      [] url = "https://www.century21.com/listing/1"  -> "www.century21.com"
      [] url = "https://www.loopnet.com/Listing/1"    -> "www.loopnet.com"
      [] url = "https://example.com/listing/1"        -> "example.com"
      [] OTHER -> ""

\* `site in domain` on the domains of the model
SiteInDomain(site, domain) ==
    \/ site = "zillow.com"    /\ domain = "www.zillow.com"
    \/ site = "redfin.com"    /\ domain = "www.redfin.com"
    \/ site = "realtor.com"   /\ domain = "www.realtor.com"
    \/ site = "homes.com"     /\ domain = "www.homes.com"
    \/ site = "century21.com" /\ domain = "www.century21.com"
    \/ site = "loopnet.com"   /\ domain = "www.loopnet.com"

\* the parser class _parse_listing picks for a domain, "" for none
AppraiserEngine_parser_for(domain) ==
    IF SiteInDomain("zillow.com", domain) THEN "ZillowParser"
    ELSE IF SiteInDomain("redfin.com", domain) THEN "RedfinParser"
    ELSE IF SiteInDomain("realtor.com", domain) THEN "RealtorParser"
    ELSE IF SiteInDomain("homes.com", domain) THEN "HomesDotComParser"
    ELSE IF SiteInDomain("century21.com", domain) THEN "Century21Parser"
    ELSE IF SiteInDomain("loopnet.com", domain) THEN "LoopNetParser"
    ELSE ""

\* parser.parse(): ZillowParser defines fetch_html and extract but no parse;
\* the other parsers raise on a page that breaks them and return what the page
\* gives otherwise; ApartmentsParser likewise
Parser_parse(parser, page) ==
    IF parser = "ZillowParser" THEN AttributeError
    ELSE IF GetD(page, "parse_raises", FALSE) THEN Exception
    ELSE page

AppraiserEngine_parse_listing(url, page) ==
    LET wrapped(data) ==
            IF IsRaised(data) THEN [success |-> FALSE, error |-> "Parser failure"]
            ELSE [source_url |-> <<url>>] @@ data
        routed(parser) ==
            IF parser = ""
            THEN [success |-> FALSE, error |-> "Unsupported listing domain"]
            ELSE wrapped(Parser_parse(parser, page))
    IN  routed(AppraiserEngine_parser_for(NetlocLower(url)))

\* AddressNormalizer().normalize(raw_address), stood for by its input
AddressNormalizer_normalize(raw_address) == [raw |-> raw_address]

\* APNLookup().lookup(apn, assessor_html), stood for by its inputs
APNLookup_lookup(apn, assessor_html) == [apn |-> apn, assessor_html |-> assessor_html]

\* ZoningLookup().lookup(zoning_code, zimas_html): ZIMAS first, then the code
ZoningLookup_lookup(zoning_code, zimas_html) ==
    IF zimas_html # None /\ zimas_html[1] # "" THEN [zimas_html |-> zimas_html]
    ELSE IF zoning_code # None /\ zoning_code[1] # "" THEN [zoning_code |-> zoning_code]
    ELSE [source |-> None, zoning |-> None, notes |-> "No zoning information provided."]

AppraiserEngine_build_subject_profile(listing_data, apn, assessor_html, zoning_code, zimas_html) ==
    LET address      == Get(listing_data, "address_full")
        address_full == IF address # None /\ address[1] # "" THEN address[1] ELSE ""
    IN  [address_raw        |-> address_full,
         address_normalized |-> AddressNormalizer_normalize(address_full),
         apn_info    |-> IF apn # None /\ apn[1] # ""
                         THEN APNLookup_lookup(apn, assessor_html) ELSE None,
         zoning_info |-> ZoningLookup_lookup(zoning_code, zimas_html),
         listing_core |->
             [price |-> Get(listing_data, "price"),
              beds  |-> Get(listing_data, "beds"),
              baths |-> Get(listing_data, "baths"),
              sqft  |-> Or(Get(listing_data, "sqft"), Get(listing_data, "building_sqft")),
              lot_size   |-> Or(Get(listing_data, "lot_size"), Get(listing_data, "lot_sqft")),
              year_built |-> Get(listing_data, "year_built"),
              property_type_raw |-> Get(listing_data, "property_type"),
              num_units  |-> Get(listing_data, "num_units"),
              source     |-> Get(listing_data, "source"),
              source_url |-> Get(listing_data, "source_url")]]

\* apartments_page is what ApartmentsParser(url).parse() gives (or raises);
\* rent_estimate is the aggregator's recommended rent for the comps it got
AppraiserEngine_build_rental_profile(subject_profile, apartments_url, manual_comps, apartments_page, rent_estimate) ==
    LET has_url == apartments_url # None /\ apartments_url[1] # ""
        parsed  == Parser_parse("ApartmentsParser", apartments_page)
        apartments_data ==
            IF ~has_url THEN None
            ELSE IF IsRaised(parsed)
            THEN [success |-> FALSE, error |-> "Failed to parse Apartments.com URL"]
            ELSE parsed
    IN  [apartments_url |-> apartments_url,
         apartments_data_success |->
             IF apartments_data # None THEN <<GetD(apartments_data, "success", FALSE)>>
             ELSE None,
         manual_comp_count |-> Len(manual_comps),
         rent_summary |-> [recommended_rent |-> [rent_estimate |-> rent_estimate]]]

\* IncomeApproach(beds=..., ...) and then income_model.summary()
AppraiserEngine_build_income_profile(subject_profile, rental_profile) ==
    LET listing      == subject_profile.listing_core
        rent_summary == rental_profile.rent_summary
        rec_rent     == rent_summary.recommended_rent.rent_estimate
        income_model == IncomeApproach_init(
            [beds        |-> Get(listing, "beds"),
             baths       |-> Get(listing, "baths"),
             num_units   |-> Or(Get(listing, "num_units"), R(1)),
             sqft        |-> Get(listing, "sqft"),
             market_rent |-> rec_rent,
             rent_detail |-> rent_summary])
    IN  IF IsRaised(income_model) THEN income_model
        ELSE IF "summary" \notin IncomeApproach_methods THEN AttributeError
        ELSE income_model

\* `word in property_type_raw` on the property types of the model
WordIn(word, property_type_raw) ==
    \/ word = "retail"     /\ property_type_raw \in {"retail", "retail/office"}
    \/ word = "office"     /\ property_type_raw \in {"office", "retail/office"}
    \/ word = "industrial" /\ property_type_raw = "industrial"
    \/ word = "mixed"      /\ property_type_raw = "mixed use"

AppraiserEngine_cap_prop_type(listing) ==
    LET num_units == Get(listing, "num_units")
        property_type_raw == LowerOrEmpty(Get(listing, "property_type_raw"))
    IN  IF Truthy(num_units) /\ RGe(num_units, R(5)) THEN "5+"
        ELSE IF Truthy(num_units) /\ RLe(R(2), num_units) /\ RLe(num_units, R(4)) THEN "2-4"
        ELSE IF WordIn("retail", property_type_raw) THEN "retail"
        ELSE IF WordIn("office", property_type_raw) THEN "office"
        ELSE IF WordIn("industrial", property_type_raw) THEN "industrial"
        ELSE IF WordIn("mixed", property_type_raw) THEN "mixed_use"
        ELSE "sfr"

AppraiserEngine_build_cap_rate_profile(subject_profile, jurisdiction) ==
    CapRateModel_summary(CapRateModel_init(
        <<AppraiserEngine_cap_prop_type(subject_profile.listing_core)>>,
        GetD(jurisdiction, "submarket_class", <<"stable">>),
        Get(jurisdiction, "risk_score"),
        GetD(jurisdiction, "is_rent_controlled", FALSE)))

FinancingNote == "Missing NOI or purchase price; DSCR loan sizing not computed."

AppraiserEngine_build_financing_profile(income_profile, purchase_price, financing) ==
    LET profile(noi) ==
            IF ~Truthy(noi) \/ ~Truthy(purchase_price)
            THEN [inputs |-> financing, note |-> FinancingNote]
            ELSE DSCRLoanModel_summary(
                     [noi            |-> noi,
                      purchase_price |-> purchase_price,
                      interest_rate  |-> GetD(financing, "interest_rate", <<27, 400>>),
                      amort_years    |-> GetD(financing, "amort_years", 30),
                      min_dscr       |-> GetD(financing, "min_dscr", <<6, 5>>),
                      max_ltv        |-> GetD(financing, "max_ltv", <<3, 4>>)])
    IN  profile(Or(Get(income_profile, "noi"), Get(income_profile, "noi_stabilized")))

AppraiserEngine_build_valuation_profile(income_profile, cap_rate_profile, purchase_price) ==
    LET value(income, cap_rate) ==
            IF Truthy(income) /\ Truthy(cap_rate) /\ RGt(cap_rate, R(0))
            THEN Round(RDiv(income, cap_rate), 2) ELSE None
        valued(noi, cap_rate) ==
            [purchase_price   |-> purchase_price,
             as_is_value      |-> value(noi, cap_rate),
             stabilized_value |->
                 value(Or(Get(income_profile, "noi_stabilized"), noi), cap_rate)]
    IN  valued(Get(income_profile, "noi"), Get(cap_rate_profile, "final_cap_rate"))

AppraiserEngine_build_recommendation(income_profile, cap_rate_profile, financing_profile, valuation_profile, jurisdiction) ==
    RecommendationEngine_recommend(RecommendationEngine_init(
        Get(jurisdiction, "risk_score"),
        Get(jurisdiction, "risk_grade"),
        financing_profile,
        cap_rate_profile,
        valuation_profile,
        Get(income_profile, "cash_on_cash"),
        [is_rent_controlled |-> GetD(jurisdiction, "is_rent_controlled", FALSE),
         jurisdiction       |-> Get(jurisdiction, "jurisdiction")]))

\* the stages of run_full_appraisal, in the order it calls them
AppraiserEngine_stages ==
    <<"listing", "subject", "rental", "income", "cap_rate", "financing",
      "valuation", "recommendation">>

\* run_full_appraisal(config) with what the external producers give in env;
\* returned is the dict it returns or the exception that leaves it, stages
\* the stages it entered.  Each local operator is the run from one stage on,
\* given what the stages before it produced.
AppraiserEngine_run_full_appraisal(config, env) ==
    LET report(listing_data, subject_profile, rental_profile, income_profile,
               cap_rate_profile, financing_profile, valuation_profile, recommendation) ==
            [stages   |-> AppraiserEngine_stages,
             returned |-> [success    |-> TRUE,
                           subject    |-> subject_profile,
                           rental     |-> rental_profile,
                           income     |-> income_profile,
                           cap_rate   |-> cap_rate_profile,
                           financing  |-> financing_profile,
                           valuation  |-> valuation_profile,
                           recommendation |-> recommendation,
                           raw_parsed |-> [listing |-> listing_data]]]
        from_recommendation(listing_data, subject_profile, rental_profile, income_profile,
                            cap_rate_profile, financing_profile, valuation_profile) ==
            report(listing_data, subject_profile, rental_profile, income_profile,
                   cap_rate_profile, financing_profile, valuation_profile,
                   AppraiserEngine_build_recommendation(
                       income_profile, cap_rate_profile, financing_profile,
                       valuation_profile, Get(config, "jurisdiction")))
        from_valuation(listing_data, subject_profile, rental_profile, income_profile,
                       cap_rate_profile, financing_profile) ==
            IF IsRaised(financing_profile)
            THEN [stages   |-> SubSeq(AppraiserEngine_stages, 1, 6),
                  returned |-> financing_profile]
            ELSE from_recommendation(
                     listing_data, subject_profile, rental_profile, income_profile,
                     cap_rate_profile, financing_profile,
                     AppraiserEngine_build_valuation_profile(
                         income_profile, cap_rate_profile, Get(listing_data, "price")))
        from_cap_rate(listing_data, subject_profile, rental_profile, income_profile) ==
            IF IsRaised(income_profile)
            THEN [stages   |-> SubSeq(AppraiserEngine_stages, 1, 4),
                  returned |-> income_profile]
            ELSE from_valuation(
                     listing_data, subject_profile, rental_profile, income_profile,
                     AppraiserEngine_build_cap_rate_profile(
                         subject_profile, Get(config, "jurisdiction")),
                     AppraiserEngine_build_financing_profile(
                         income_profile, Get(listing_data, "price"),
                         Get(config, "financing")))
        from_income(listing_data, subject_profile, rental_profile) ==
            from_cap_rate(listing_data, subject_profile, rental_profile,
                          AppraiserEngine_build_income_profile(
                              subject_profile, rental_profile))
        from_rental(listing_data, subject_profile) ==
            from_income(listing_data, subject_profile,
                        AppraiserEngine_build_rental_profile(
                            subject_profile, Get(config, "rental_apartments_url"),
                            Get(config, "manual_rent_comps"), env.apartments_page,
                            env.rent_estimate))
        from_subject(listing_data) ==
            from_rental(listing_data,
                        AppraiserEngine_build_subject_profile(
                            listing_data, Get(config, "apn"), Get(config, "assessor_html"),
                            Get(config, "zoning_code"), Get(config, "zimas_html")))
        from_listing(primary_url) ==
            IF primary_url = None \/ primary_url[1] = ""
            THEN [stages   |-> <<>>,
                  returned |-> [success |-> FALSE, error |-> "primary_url is required"]]
            ELSE from_subject(AppraiserEngine_parse_listing(primary_url[1], env.page))
    IN  from_listing(Get(config, "primary_url"))

---------------------------------------------------------------------------
(* Inputs of the model.  Amounts are small so that the exact rationals stay *)
(* within TLC's integers; the monthly rates 0 and 1 (annual 0 and 12) are   *)
(* the rates for which (1 + r) ** n does.                                   *)

NoiValues == {R(-120), R(0), R(120)}

PriceValues == {R(0), R(8), R(120), R(180)}

InterestRates == {R(0), R(12)}

AmortYears == {0, 1}

MinDscrValues == {R(0), <<6, 5>>, <<5, 4>>, <<17, 16>>}

MaxLtvValues == {R(0), <<3, 4>>}

DSCRModels ==
    [noi : NoiValues, purchase_price : PriceValues, interest_rate : InterestRates,
     amort_years : AmortYears, min_dscr : MinDscrValues, max_ltv : MaxLtvValues]

\* loans and rates for _payment_for_loan and its inverse: a negative, a zero
\* and two positive rates (monthly -1, 0, 1, 2)
LoanAmounts == {R(-50), R(0), <<250, 3>>, R(100)}

RoundTripRates == {R(-12), R(0), R(12), R(24)}

RoundTripModels ==
    [noi : {R(120)}, purchase_price : {R(180)}, interest_rate : RoundTripRates,
     amort_years : AmortYears, min_dscr : {<<6, 5>>}, max_ltv : {<<3, 4>>}]

\* comparable sales and subjects for SalesCompModel
MaxComps == 5

CompPool ==
    {[price |-> R(900),  sqft |-> R(1000), beds |-> R(3), baths |-> R(2),
      distance_miles |-> <<1, 2>>, property_type |-> <<"SFR">>],
     [price |-> R(1200), sqft |-> R(1500), beds |-> R(4), baths |-> R(2),
      num_units |-> R(2), distance_miles |-> R(1)],
     [price |-> R(600),  sqft |-> R(400),  distance_miles |-> R(3)],
     [price |-> R(1500), sqft |-> R(1000), beds |-> R(3), num_units |-> R(1),
      property_type |-> <<"condo">>]}

CompLists == UNION {[1..n -> CompPool] : n \in 0..MaxComps}

Subjects ==
    {[beds |-> R(3), baths |-> R(2), sqft |-> R(1000), num_units |-> R(1),
      property_type |-> <<"sfr">>],
     [sqft |-> R(900), num_units |-> R(2)],
     <<>>}

\* comps for _normalize_comp alone: one unlike the subject in every field and
\* far away, one at a negative distance, one beyond the distance cap, one
\* with nothing known but price and area, one without area
ExtremeComps ==
    {[price |-> R(100), sqft |-> R(5000), beds |-> R(30), baths |-> R(20),
      num_units |-> R(40), distance_miles |-> R(50), property_type |-> <<"condo">>],
     [price |-> R(900), sqft |-> R(1000), distance_miles |-> R(-3)],
     [price |-> R(900), sqft |-> R(1000), beds |-> R(5), distance_miles |-> R(7)],
     [price |-> R(900), sqft |-> R(1000)],
     [price |-> R(900), num_units |-> R(2)]}

\* comps at the edges of the filter: without price or area, at and past the
\* distance limit, at and past both ends of the ratio band of a 1000 sqft
\* subject
MaxFilterComps == 2

FilterPool ==
    {[sqft |-> R(1000), distance_miles |-> R(1)],
     [price |-> R(0), sqft |-> R(1000)],
     [price |-> R(900), distance_miles |-> R(1)],
     [price |-> R(900), sqft |-> R(0)],
     [price |-> R(900), sqft |-> R(1000), distance_miles |-> R(2)],
     [price |-> R(900), sqft |-> R(1000), distance_miles |-> <<21, 10>>],
     [price |-> R(900), sqft |-> R(1000)],
     [price |-> R(500), sqft |-> R(500), distance_miles |-> R(0)],
     [price |-> R(500), sqft |-> R(499), distance_miles |-> R(1)],
     [price |-> R(1200), sqft |-> R(1500)],
     [price |-> R(1200), sqft |-> R(1501), distance_miles |-> R(1)]}

FilterSubjects == Subjects \cup {[sqft |-> R(0)]}

FilterModels ==
    [subject : FilterSubjects,
     comps : UNION {[1..n -> FilterPool] : n \in 0..MaxFilterComps},
     max_distance_miles : {R(2)}, min_sqft_ratio : {<<1, 2>>},
     max_sqft_ratio : {<<3, 2>>}, target_comp_count : {6}]

\* the lists that a target_comp_count of 2 trims
MaxTrimmedComps == 3

TrimmedCompLists == UNION {[1..n -> CompPool] : n \in 0..MaxTrimmedComps}

\* the default target_comp_count on every list, a target of 2 on the short ones
SalesCompModels ==
    [subject : Subjects, comps : CompLists, max_distance_miles : {R(2)},
     min_sqft_ratio : {<<1, 2>>}, max_sqft_ratio : {<<3, 2>>}, target_comp_count : {6}]
    \cup
    [subject : Subjects, comps : TrimmedCompLists, max_distance_miles : {R(2)},
     min_sqft_ratio : {<<1, 2>>}, max_sqft_ratio : {<<3, 2>>}, target_comp_count : {2}]

\* inputs of CapRateModel: types and classes in and out of the grid
\* risk scores: absent, out of range on both sides, and both sides of every
\* band boundary
RiskScores ==
    {None, R(-5), R(0), R(10), R(19), R(20), R(39), R(40), R(50), R(59), R(60),
     R(79), R(80), R(90), R(100), R(105)}

\* the arguments of CapRateModel(...): grid keys in both cases, the names
\* "single_family" and "2-4 unit", an unknown type and tier, "" and None
CapRateArgs ==
    [property_type : {None, <<"">>, <<"sfr">>, <<"SFR">>, <<"2-4">>, <<"5+">>,
                      <<"Office">>, <<"condo">>, <<"single_family">>, <<"2-4 unit">>},
     submarket_class : {None, <<"Prime">>, <<"core">>, <<"stable">>, <<"Stable">>,
                        <<"distressed">>, <<"Luxury">>},
     risk_score : RiskScores,
     is_rent_controlled : BOOLEAN]

\* financing dicts of the appraisal config
FinancingConfigs ==
    {<<>>,
     [amort_years |-> 0],
     [interest_rate |-> R(0), amort_years |-> 1],
     [interest_rate |-> R(12), amort_years |-> 1, min_dscr |-> <<17, 16>>,
      max_ltv |-> R(1)]}

\* the financing dicts whose loan the exact arithmetic of the model can size:
\* (1 + r / 12) ** n is computed for the rates of InterestRates and for n = 0
Sizable(financing) ==
    \/ GetD(financing, "amort_years", 30) = 0
    \/ Get(financing, "interest_rate") \in InterestRates

IncomeProfiles ==
    {<<>>, [noi |-> R(120)], [noi |-> R(0), noi_stabilized |-> R(120)],
     [noi |-> R(120), cash_on_cash |-> <<2, 25>>]}

\* inputs of the weighted-average RecommendationEngine
DscrSummaries ==
    {DSCRLoanModel_summary(m) :
        m \in {[noi |-> R(120), purchase_price |-> R(180), interest_rate |-> R(0),
                amort_years |-> 1, min_dscr |-> d, max_ltv |-> <<3, 4>>] :
               d \in {R(0), <<6, 5>>, <<17, 16>>}}}
    \cup {AppraiserEngine_build_financing_profile(<<>>, None, <<>>),
          [meets_min_dscr |-> TRUE, dscr_at_final_loan |-> <<5, 4>>],
          [meets_min_dscr |-> FALSE, dscr_at_final_loan |-> <<11, 10>>]}

CapRateSummaries ==
    {<<>>}
    \cup {CapRateModel_summary(CapRateModel_init(p, <<"stable">>, None, FALSE)) :
             p \in {<<"sfr">>, <<"mixed_use">>, <<"office">>}}

ValuationSummaries == {[purchase_price |-> p] : p \in {None, R(0), R(100)}}

CashOnCashValues == {None, <<1, 50>>, <<3, 100>>, <<7, 100>>}

SalesComparisons ==
    {<<>>, [success |-> FALSE]}
    \cup {[success |-> TRUE, comp_value_estimate |-> R(v)] : v \in {84, 85, 95, 110, 120}}
    \cup {SalesCompModel_summary(
              [subject |-> [sqft |-> R(1000)],
               comps   |-> <<[price |-> R(120), sqft |-> R(1000)]>>,
               max_distance_miles |-> R(2), min_sqft_ratio |-> <<1, 2>>,
               max_sqft_ratio |-> <<3, 2>>, target_comp_count |-> 6])}

\* sales comparisons handed to the aggregator as SalesCompModel returns them
ScoredSalesModels ==
    [subject : Subjects, comps : UNION {[1..n -> CompPool] : n \in 0..MaxFilterComps},
     max_distance_miles : {R(2)}, min_sqft_ratio : {<<1, 2>>},
     max_sqft_ratio : {<<3, 2>>}, target_comp_count : {6}]

\* the ConfidenceScore of the appraisal, as NarrativeBuilder and the report
\* receive it; RecommendationEngine.__init__ has no parameter for it
MarketConfidences ==
    {[level |-> "high", score |-> <<9, 2>>], [level |-> "medium", score |-> R(3)],
     [level |-> "low", score |-> R(2)], [level |-> "unknown", score |-> None]}

RecommendationEngines2 ==
    [dscr_summary : DscrSummaries, cap_rate_summary : CapRateSummaries,
     valuation_summary : ValuationSummaries, cash_on_cash : CashOnCashValues,
     sales_comparison : SalesComparisons]

\* inputs of the bucket RecommendationEngine
RecommendationEngines ==
    {RecommendationEngine_init(rs, rg, d, c, v, coc,
                               [is_rent_controlled |-> rc, jurisdiction |-> None]) :
        rs \in {None, R(10), R(60), R(90)},
        rg \in {None, <<"b">>, <<"D">>},
        d  \in {<<>>, [dscr_at_final_loan |-> <<5, 4>>, ltv_at_final_loan |-> <<3, 4>>]},
        c  \in {<<>>, [final_cap_rate |-> <<1, 20>>, base_cap_rate |-> <<9, 200>>]},
        v  \in {<<>>, [purchase_price |-> R(100), as_is_value |-> R(120),
                       stabilized_value |-> R(90)]},
        coc \in {None, <<1, 10>>},
        rc \in BOOLEAN}

\* appraisal configs and what the external producers give
PrimaryUrls ==
    {None, <<"">>,
     <<"https://www.zillow.com/homedetails/1">>,
     <<"https://www.Redfin.com/CA/home/1">>,
     <<"https://www.loopnet.com/Listing/1">>,
     <<"https://example.com/listing/1">>}

ListingPages ==
    {[parse_raises |-> TRUE],
     [success |-> FALSE, error |-> "Failed to fetch page"],
     [success |-> TRUE, source |-> <<"listing">>,
      address_full |-> <<"123 Main St, Los Angeles, CA 90012">>,
      price |-> R(180), beds |-> R(3), baths |-> R(2), sqft |-> R(1500),
      num_units |-> R(4), property_type |-> <<"Mixed Use">>],
     [success |-> TRUE, source |-> <<"loopnet">>, address_full |-> None,
      price |-> None, building_sqft |-> R(5000), num_units |-> None,
      property_type |-> <<"Retail/Office">>]}

ApartmentsPages ==
    {[parse_raises |-> TRUE],
     [success |-> FALSE, error |-> "Failed to fetch Apartments.com page"],
     [success |-> TRUE, source |-> <<"apartments.com">>, rent_min |-> R(2000),
      rent_max |-> R(2800)]}

Jurisdictions ==
    {<<>>,
     [is_rent_controlled |-> TRUE, jurisdiction |-> <<"LA City">>,
      submarket_class |-> <<"Prime">>, risk_score |-> R(30), risk_grade |-> <<"b">>]}

Configs ==
    [primary_url : PrimaryUrls,
     rental_apartments_url : {None, <<"https://www.apartments.com/building/1">>},
     manual_rent_comps : {<<>>, <<[beds |-> R(2), baths |-> R(1), sqft |-> R(850),
                                   rent |-> R(2400), source |-> <<"manual">>]>>},
     apn : {None, <<"5555-001-001">>},
     zoning_code : {None, <<"R3-1">>},
     financing : FinancingConfigs,
     jurisdiction : Jurisdictions,
     sales_comps : {<<>>, <<[price |-> R(900), sqft |-> R(1000)]>>}]

\* what the producers can give for a config: no page is read without a URL,
\* and the aggregator has a rent only when it was given comps
Envs(config) ==
    LET has_apartments == config.rental_apartments_url # None
        pages == IF has_apartments THEN ApartmentsPages ELSE {None}
    IN  {env \in [page : ListingPages, apartments_page : pages,
                  rent_estimate : {None, R(2400)}] :
            env.rent_estimate # None =>
                \/ config.manual_rent_comps # <<>>
                \/ has_apartments /\ GetD(env.apartments_page, "success", FALSE)}

---------------------------------------------------------------------------
(* The state machine: one call of one entry point.  entry names the call,   *)
(* args its inputs, result what it returned or raised, stages the stages    *)
(* run_full_appraisal entered.                                              *)

Init ==
    /\ entry = "idle"
    /\ args = None
    /\ result = None
    /\ stages = <<>>

\* DSCRLoanModel(noi, ...).summary()
CallDSCRSummary ==
    /\ entry = "idle"
    /\ \E m \in DSCRModels :
          /\ entry' = "DSCRLoanModel.summary"
          /\ args' = m
          /\ result' = DSCRLoanModel_summary(m)
    /\ UNCHANGED stages

\* m._loan_from_annual_debt_service(12 * m._payment_for_loan(loan_amount))
CallLoanFromPayment ==
    /\ entry = "idle"
    /\ \E m \in RoundTripModels, loan_amount \in LoanAmounts :
          \E payment \in {DSCRLoanModel_payment_for_loan(m, loan_amount)} :
             /\ entry' = "DSCRLoanModel._loan_from_annual_debt_service"
             /\ args' = [model |-> m, loan_amount |-> loan_amount, payment |-> payment]
             /\ result' = IF IsRaised(payment) THEN payment
                          ELSE DSCRLoanModel_loan_from_annual_debt_service(
                                   m, RMul(R(12), payment))
    /\ UNCHANGED stages

\* SalesCompModel(subject, comps, ...).summary()
CallSalesCompSummary ==
    /\ entry = "idle"
    /\ \E sm \in SalesCompModels :
          /\ entry' = "SalesCompModel.summary"
          /\ args' = sm
          /\ result' = SalesCompModel_summary(sm)
    /\ UNCHANGED stages

\* SalesCompModel(subject, [], ...)._normalize_comp(comp)
CallNormalizeComp ==
    /\ entry = "idle"
    /\ \E sm \in FilterModels, comp \in CompPool \cup ExtremeComps :
          /\ sm.comps = <<>>
          /\ entry' = "SalesCompModel._normalize_comp"
          /\ args' = [model |-> sm, comp |-> comp]
          /\ result' = SalesCompModel_normalize_comp(sm, comp)
    /\ UNCHANGED stages

\* SalesCompModel(subject, comps, ...)._filter_comps()
CallFilterComps ==
    /\ entry = "idle"
    /\ \E sm \in FilterModels :
          /\ entry' = "SalesCompModel._filter_comps"
          /\ args' = sm
          /\ result' = [filtered |-> SalesCompModel_filter_comps(sm)]
    /\ UNCHANGED stages

\* CapRateModel(property_type, ...).summary()
CallCapRateSummary ==
    /\ entry = "idle"
    /\ \E a \in CapRateArgs :
          /\ entry' = "CapRateModel.summary"
          /\ args' = a
          /\ result' = CapRateModel_summary(
                           CapRateModel_init(a.property_type, a.submarket_class,
                                             a.risk_score, a.is_rent_controlled))
    /\ UNCHANGED stages

\* AppraiserEngine()._build_financing_profile(income_profile, ...)
CallBuildFinancingProfile ==
    /\ entry = "idle"
    /\ \E income_profile \in IncomeProfiles, purchase_price \in {None} \cup PriceValues,
          financing \in FinancingConfigs :
          /\ \/ Sizable(financing)
             \/ ~Truthy(Or(Get(income_profile, "noi"), Get(income_profile, "noi_stabilized")))
             \/ ~Truthy(purchase_price)
          /\ entry' = "AppraiserEngine._build_financing_profile"
          /\ args' = [income_profile |-> income_profile,
                      purchase_price |-> purchase_price, financing |-> financing]
          /\ result' = AppraiserEngine_build_financing_profile(
                           income_profile, purchase_price, financing)
    /\ UNCHANGED stages

\* RecommendationEngine(...).recommend() of recommendation_engine_2.py
CallRecommend2 ==
    /\ entry = "idle"
    /\ \E e \in RecommendationEngines2, market_confidence \in MarketConfidences :
          /\ entry' = "RecommendationEngine2.recommend"
          /\ args' = [engine |-> e, market_confidence |-> market_confidence]
          /\ result' = RecommendationEngine2_recommend(e)
    /\ UNCHANGED stages

\* RecommendationEngine(...)._sales_comparison_score() on a summary of SalesCompModel
CallSalesComparisonScore ==
    /\ entry = "idle"
    /\ \E sm \in ScoredSalesModels, v \in ValuationSummaries :
          \E summary \in {SalesCompModel_summary(sm)} :
             /\ entry' = "RecommendationEngine2._sales_comparison_score"
             /\ args' = [model |-> sm, valuation_summary |-> v, sales_comparison |-> summary]
             /\ result' = RecommendationEngine2_sales_comparison_score(
                              [dscr_summary |-> <<>>, cap_rate_summary |-> <<>>,
                               valuation_summary |-> v, cash_on_cash |-> None,
                               sales_comparison |-> summary])
    /\ UNCHANGED stages

\* RecommendationEngine(...).recommend() of recommendation_engine.py
CallRecommend ==
    /\ entry = "idle"
    /\ \E b \in RecommendationEngines :
          /\ entry' = "RecommendationEngine.recommend"
          /\ args' = b
          /\ result' = RecommendationEngine_recommend(b)
    /\ UNCHANGED stages

\* AppraiserEngine().run_full_appraisal(config)
RunFullAppraisal ==
    /\ entry = "idle"
    /\ \E config \in Configs :
          \E env \in Envs(config) :
             \E run \in {AppraiserEngine_run_full_appraisal(config, env)} :
                /\ entry' = "AppraiserEngine.run_full_appraisal"
                /\ args' = [config |-> config, env |-> env]
                /\ result' = run.returned
                /\ stages' = run.stages

\* MarketConfidenceScorer on the summary of SalesCompModel(subject, comps, ...)
CallMarketConfidence ==
    /\ entry = "idle"
    /\ \E sm \in SalesCompModels \cup FilterModels :
          \E summary \in {SalesCompModel_summary(sm)} :
              /\ entry' = "MarketConfidenceScorer.score"
              /\ args' = [model |-> sm, summary |-> summary]
              /\ result' = MarketConfidenceScorer_score(summary)
    /\ UNCHANGED stages

\* summary() once more on the object of a first summary(): args is the object
\* before the first call and as that call left it, result the two results
CallSalesCompSummaryAgain ==
    /\ entry = "SalesCompModel.summary"
    /\ \E after \in {SalesCompModel_after_summary(args)} :
          /\ entry' = "SalesCompModel.summary again"
          /\ args' = [before |-> args, after |-> after]
          /\ result' = [first |-> result, second |-> SalesCompModel_summary(after)]
    /\ UNCHANGED stages

Next ==
    \/ CallDSCRSummary
    \/ CallLoanFromPayment
    \/ CallSalesCompSummary
    \/ CallSalesCompSummaryAgain
    \/ CallFilterComps
    \/ CallNormalizeComp
    \/ CallMarketConfidence
    \/ CallCapRateSummary
    \/ CallBuildFinancingProfile
    \/ CallRecommend2
    \/ CallSalesComparisonScore
    \/ CallRecommend
    \/ RunFullAppraisal

Spec == Init /\ [][Next]_vars

---------------------------------------------------------------------------
(* Properties of run_full_appraisal.                                        *)

\* C1: a run with a non-empty primary_url enters the eight stages in order
\* (listing, subject, rental, income, cap rate, financing, valuation,
\* recommendation) and returns a report; no stage raises or stops the run.
C1_RunReachesReport ==
    (/\ entry = "AppraiserEngine.run_full_appraisal"
     /\ args.config.primary_url # None
     /\ args.config.primary_url[1] # "")
        => /\ stages = AppraiserEngine_stages
           /\ ~IsRaised(result)
           /\ result.success

\* C2: a run whose primary_url is absent, or whose listing cannot be parsed
\* (unsupported domain or parser failure), returns success = False with an
\* error and has no valuation and no recommendation section.
C2_MissingSubjectRejected ==
    (/\ entry = "AppraiserEngine.run_full_appraisal"
     /\ \/ args.config.primary_url = None
        \/ args.config.primary_url[1] = ""
        \/ ~GetD(AppraiserEngine_parse_listing(args.config.primary_url[1],
                                               args.env.page), "success", FALSE))
        => /\ ~IsRaised(result)
           /\ ~result.success
           /\ "error" \in DOMAIN result
           /\ "valuation" \notin DOMAIN result
           /\ "recommendation" \notin DOMAIN result

---------------------------------------------------------------------------
(* Properties of the weighted-average RecommendationEngine.                 *)

\* C3: the decision of recommend() is a threshold function of the unrounded
\* mean of the component scores: BUY iff it is at least 4.2, WATCH iff it is
\* at least 3.2 and below 4.2, PASS otherwise; exactly 4.2 is BUY and a score
\* just below 4.2 is WATCH (likewise 3.2 is WATCH and just below it is PASS).
C3_DecisionIsThreshold ==
    /\ entry = "RecommendationEngine2.recommend" =>
          LET decided(final_score) ==
                  /\ result.final_recommendation = "BUY" <=> RGe(final_score, <<21, 5>>)
                  /\ result.final_recommendation = "WATCH" <=>
                         RGe(final_score, <<16, 5>>) /\ RLt(final_score, <<21, 5>>)
                  /\ result.final_recommendation = "PASS" <=> RLt(final_score, <<16, 5>>)
                  /\ result.final_score = Round(final_score, 3)
          IN  decided(RecommendationEngine2_final_score(
                  SelectSeq(<<result.components.sales_comparison.score,
                              result.components.cap_rate_score,
                              result.components.dscr_score,
                              result.components.cash_on_cash_score>>,
                            LAMBDA s : s # None)))
    /\ RecommendationEngine2_final_rating(<<21, 5>>) = "BUY"
    /\ RecommendationEngine2_final_rating(<<4199999, 1000000>>) = "WATCH"
    /\ RecommendationEngine2_final_rating(<<16, 5>>) = "WATCH"
    /\ RecommendationEngine2_final_rating(<<3199999, 1000000>>) = "PASS"

\* a BUY at 4.25 (5, 4, 4, 4) has been returned
C3_Witness ==
    /\ entry = "RecommendationEngine2.recommend"
    /\ result.final_recommendation = "BUY"
    /\ result.final_score = <<17, 4>>
    /\ result.components.sales_comparison.active

\* C4: final_score is the mean of exactly the component scores whose input
\* was computed; when debt sizing was not computed (the DSCR summary has no
\* dscr_at_final_loan) the DSCR component is left out of the mean.
C4_MeanOfComputedComponents ==
    entry = "RecommendationEngine2.recommend" =>
        LET mean_of(dscr_score) ==
                result.final_score =
                    Round(RecommendationEngine2_final_score(
                              SelectSeq(<<result.components.sales_comparison.score,
                                          result.components.cap_rate_score,
                                          dscr_score,
                                          result.components.cash_on_cash_score>>,
                                        LAMBDA s : s # None)), 3)
        IN  mean_of(IF Get(args.engine.dscr_summary, "dscr_at_final_loan") # None
                    THEN result.components.dscr_score ELSE None)

\* C5: for a DSCR summary produced by DSCRLoanModel.summary() with a sized
\* loan, the DSCR component score is 4 when dscr_at_final_loan >= min_dscr
\* and 1 when it is below.
C5_DscrScoreFromSummary ==
    (/\ entry = "RecommendationEngine2.recommend"
     /\ "inputs" \in DOMAIN args.engine.dscr_summary
     /\ Get(args.engine.dscr_summary, "dscr_at_final_loan") # None)
        => result.components.dscr_score =
               IF RGe(args.engine.dscr_summary.dscr_at_final_loan,
                      args.engine.dscr_summary.inputs.min_dscr)
               THEN R(4) ELSE R(1)

\* C6: for a sales comparison produced by SalesCompModel.summary(), the
\* component is inactive exactly when there is no blended value or no
\* purchase price; with a blended value V and a price P > 0 it is active with
\* the score of the ladder on (V - P) / P.
C6_SalesComponentFromSummary ==
    (/\ entry = "RecommendationEngine2.recommend"
     /\ "value_estimates" \in DOMAIN args.engine.sales_comparison)
        => LET scored(V, P) ==
                   IF Truthy(V) /\ Truthy(P) /\ RGt(P, R(0))
                   THEN /\ result.components.sales_comparison.active
                        /\ result.components.sales_comparison.score =
                               RecommendationEngine2_sales_rating(
                                   RDiv(RSub(V, P), P)).score
                   ELSE ~result.components.sales_comparison.active
           IN  scored(args.engine.sales_comparison.value_estimates.base_value,
                      Get(args.engine.valuation_summary, "purchase_price"))

\* C7: final_score is the mean of the component scores plus the adjustment
\* of the market confidence (+0.10 high, -0.20 low, 0 medium or unknown), and
\* the thresholds 4.2 and 3.2 are applied to the adjusted score.
C7_ConfidenceAdjusted ==
    entry = "RecommendationEngine2.recommend" =>
        LET adjusted(final_score) ==
                /\ result.final_score = Round(final_score, 3)
                /\ result.final_recommendation =
                       IF RGe(final_score, <<21, 5>>) THEN "BUY"
                       ELSE IF RGe(final_score, <<16, 5>>) THEN "WATCH"
                       ELSE "PASS"
            adjustment == CASE args.market_confidence.level = "high" -> <<1, 10>>
                            [] args.market_confidence.level = "low" -> <<-1, 5>>
                            [] OTHER -> R(0)
        IN  adjusted(RAdd(RecommendationEngine2_final_score(
                              SelectSeq(<<result.components.sales_comparison.score,
                                          result.components.cap_rate_score,
                                          result.components.dscr_score,
                                          result.components.cash_on_cash_score>>,
                                        LAMBDA s : s # None)),
                          adjustment))

\* C8: a run whose config supplies comparable sales enters a sales comparison
\* stage after valuation and before recommendation and returns a report that
\* holds the comparable-set summary.
C8_CompsAnalyzedBeforeRecommendation ==
    (/\ entry = "AppraiserEngine.run_full_appraisal"
     /\ args.config.primary_url # None
     /\ args.config.primary_url[1] # ""
     /\ args.config.sales_comps # <<>>)
        => /\ \E i \in 2..(Len(stages) - 1) :
                 /\ stages[i - 1] = "valuation"
                 /\ stages[i] = "sales_comparison"
                 /\ stages[i + 1] = "recommendation"
           /\ ~IsRaised(result)
           /\ "sales_comparison" \in DOMAIN result

\* C28: recommend() decides BUY only when the sales-comparison component is
\* active with score 5, that is when the comparable value estimate is at
\* least 20% above the purchase price; the other component scores are at
\* most 4, so without that component the mean stays below 4.2.
C28_BuyNeedsStrongSalesComparison ==
    entry = "RecommendationEngine2.recommend" =>
        LET sales == result.components.sales_comparison
            others == SelectSeq(<<result.components.cap_rate_score,
                                  result.components.dscr_score,
                                  result.components.cash_on_cash_score>>,
                                LAMBDA s : s # None)
        IN  /\ \A i \in 1..Len(others) : RLe(others[i], R(4))
            /\ result.final_recommendation = "BUY" =>
                   /\ sales.active
                   /\ sales.score = R(5)
                   /\ RGe(args.engine.sales_comparison.comp_value_estimate,
                          RMul(<<6, 5>>, args.engine.valuation_summary.purchase_price))
            /\ (~sales.active \/ sales.score # R(5)) =>
                   /\ RLt(result.final_score, <<21, 5>>)
                   /\ result.final_recommendation # "BUY"

\* a BUY at 4.5: a comparable value of 120 against a price of 100 scores 5,
\* the DSCR component scores 4 and the other two are absent
C28_Witness ==
    /\ entry = "RecommendationEngine2.recommend"
    /\ result.final_recommendation = "BUY"
    /\ result.final_score = <<9, 2>>
    /\ result.components.sales_comparison.score = R(5)
    /\ result.components.cap_rate_score = None
    /\ result.components.cash_on_cash_score = None
    /\ args.engine.sales_comparison.comp_value_estimate = R(120)
    /\ args.engine.valuation_summary.purchase_price = R(100)

---------------------------------------------------------------------------
(* Properties of DSCRLoanModel.                                             *)

\* C9: the final loan is the smaller of loan_by_dscr and loan_by_ltv when
\* both are defined, the defined one when one is, and None when neither is;
\* the same holds between the rounded values summary() reports.
C9_FinalLoanIsSmaller ==
    (entry = "DSCRLoanModel.summary" /\ ~IsRaised(result)) =>
        LET smaller(l_dscr, l_ltv) ==
                IF l_dscr = None /\ l_ltv = None THEN None
                ELSE IF l_dscr = None THEN l_ltv
                ELSE IF l_ltv = None THEN l_dscr
                ELSE RMin(l_dscr, l_ltv)
        IN  /\ DSCRLoanModel_final_loan_amount(args) =
                   smaller(DSCRLoanModel_loan_by_dscr(args), DSCRLoanModel_loan_by_ltv(args))
            /\ result.final_loan_amount = smaller(result.loan_by_dscr, result.loan_by_ltv)

\* C10 as stated: for noi, price, min_dscr, max_ltv > 0 and amort_years >= 1
\* the dscr_at_final_loan that summary() reports is at least min_dscr.
C10_ReportedDscrMeetsMinimum ==
    (/\ entry = "DSCRLoanModel.summary"
     /\ RGt(args.noi, R(0)) /\ RGt(args.purchase_price, R(0))
     /\ RGt(args.min_dscr, R(0)) /\ RGt(args.max_ltv, R(0))
     /\ args.amort_years >= 1)
        => /\ ~IsRaised(result)
           /\ result.dscr_at_final_loan # None
           /\ RGe(result.dscr_at_final_loan, args.min_dscr)

\* C10: for noi, price, max_ltv > 0, amort_years >= 1 and a min_dscr > 0 of at
\* most three decimals, the dscr_at_final_loan that summary() reports (rounded
\* to three decimals) is at least min_dscr, whichever bound is binding.
C10_ReportedDscrMeetsThreeDecimalMinimum ==
    (/\ entry = "DSCRLoanModel.summary"
     /\ RGt(args.noi, R(0)) /\ RGt(args.purchase_price, R(0))
     /\ RGt(args.min_dscr, R(0)) /\ RGt(args.max_ltv, R(0))
     /\ args.amort_years >= 1
     /\ Round(args.min_dscr, 3) = args.min_dscr)
        => /\ ~IsRaised(result)
           /\ result.dscr_at_final_loan # None
           /\ RGe(result.dscr_at_final_loan, args.min_dscr)

\* a loan bound by the DSCR has been sized at an interest rate above zero and
\* reports exactly the minimum
C10_Witness ==
    /\ entry = "DSCRLoanModel.summary"
    /\ RGt(args.interest_rate, R(0))
    /\ args.amort_years >= 1
    /\ args.min_dscr = <<6, 5>>
    /\ ~IsRaised(result)
    /\ result.final_loan_amount # None
    /\ result.final_loan_amount = result.loan_by_dscr
    /\ result.loan_by_ltv # None
    /\ result.dscr_at_final_loan = <<6, 5>>

\* C11: for a payment count n >= 1, the loan solved from twelve times the
\* payment of a loan L is L again, at positive rates (the annuity formula and
\* its inverse) and at rates <= 0 (L / n and monthly_payment * n).
C11_AnnuityRoundTrip ==
    (/\ entry = "DSCRLoanModel._loan_from_annual_debt_service"
     /\ DSCRLoanModel_num_payments(args.model) >= 1)
        => /\ ~IsRaised(args.payment)
           /\ ~IsRaised(result)
           /\ result = args.loan_amount

\* a loan of 250/3 went through the annuity formula at a positive rate and
\* came back
C11_Witness ==
    /\ entry = "DSCRLoanModel._loan_from_annual_debt_service"
    /\ RGt(args.model.interest_rate, R(0))
    /\ DSCRLoanModel_num_payments(args.model) >= 1
    /\ args.loan_amount = <<250, 3>>
    /\ ~IsRaised(args.payment)
    /\ RGt(args.payment, RDiv(args.loan_amount, R(12)))
    /\ result = <<250, 3>>

\* C12: loan_by_dscr is None exactly when min_dscr <= 0 or noi <= 0 and
\* loan_by_ltv is None exactly when max_ltv <= 0 or purchase_price <= 0, as
\* methods and as summary() reports them; when neither is defined summary()
\* returns with final_loan_amount, monthly_payment, annual_debt_service,
\* dscr_at_final_loan and ltv_at_final_loan all None.
C12_NotComputedIsNone ==
    entry = "DSCRLoanModel.summary" =>
        LET absent(no_dscr, no_ltv) ==
                /\ DSCRLoanModel_loan_by_dscr(args) = None <=> no_dscr
                /\ DSCRLoanModel_loan_by_ltv(args) = None <=> no_ltv
                /\ ~IsRaised(result) =>
                       /\ result.loan_by_dscr = None <=> no_dscr
                       /\ result.loan_by_ltv = None <=> no_ltv
                /\ (no_dscr /\ no_ltv) =>
                       /\ ~IsRaised(result)
                       /\ result.final_loan_amount = None
                       /\ result.monthly_payment = None
                       /\ result.annual_debt_service = None
                       /\ result.dscr_at_final_loan = None
                       /\ result.ltv_at_final_loan = None
        IN  absent(RLe(args.min_dscr, R(0)) \/ RLe(args.noi, R(0)),
                   RLe(args.max_ltv, R(0)) \/ RLe(args.purchase_price, R(0)))

\* a summary with a negative NOI and no price has been returned: no loan by
\* either bound and no metric
C12_Witness ==
    /\ entry = "DSCRLoanModel.summary"
    /\ RLt(args.noi, R(0))
    /\ RGt(args.min_dscr, R(0))
    /\ RGt(args.max_ltv, R(0))
    /\ args.purchase_price = R(0)
    /\ ~IsRaised(result)
    /\ result.loan_by_dscr = None
    /\ result.loan_by_ltv = None
    /\ result.final_loan_amount = None
    /\ result.dscr_at_final_loan = None

\* C13: in every summary with a loan, the annual_debt_service reported is
\* twelve times the monthly_payment reported (each rounded to 2 decimals).
C13_AnnualIsTwelveMonthly ==
    (/\ entry = "DSCRLoanModel.summary"
     /\ ~IsRaised(result)
     /\ result.final_loan_amount # None)
        => result.annual_debt_service = RMul(R(12), result.monthly_payment)

\* C30: summary() returns for every numeric input, an amortization of 0
\* years and an interest rate of 0 or below included: where the payment
\* cannot be computed the outputs are None and no division error is raised.
C30_SummaryNeverRaises ==
    entry = "DSCRLoanModel.summary" => ~IsRaised(result)

---------------------------------------------------------------------------
(* Properties of SalesCompModel.                                            *)

\* C14: over the ascending-sorted price-per-area and price-per-unit values of
\* the kept comps, n >= 1 of them, low is the element at index floor(0.20 * n)
\* and high the element at index floor(0.80 * n) clamped to n - 1 (indices
\* from 0).
C14_BandsAtFloorIndex ==
    (entry = "SalesCompModel.summary" /\ ~IsRaised(result)) =>
        LET at_floor(values_sorted, low, high) ==
                Len(values_sorted) >= 1 =>
                    /\ low = values_sorted[Max(0, Len(values_sorted) \div 5) + 1]
                    /\ high = values_sorted[Min(Len(values_sorted) - 1,
                                                (4 * Len(values_sorted)) \div 5) + 1]
            values(with_key, key) == [i \in 1..Len(with_key) |-> with_key[i][key]]
            kept(key) ==
                Sorted(values(SelectSeq(result.normalized_comps,
                                        LAMBDA c : Truthy(Get(c, key))), key))
        IN  /\ at_floor(kept("price_per_sqft"), result.stats.low_ppsf, result.stats.high_ppsf)
            /\ at_floor(kept("price_per_unit"), result.stats.low_ppu, result.stats.high_ppu)

\* C15: whenever at least one comp is kept, the statistics are defined and
\* low_ppsf <= median_ppsf <= high_ppsf and low_ppu <= median_ppu <= high_ppu.
C15_BandsEncloseMedian ==
    (/\ entry = "SalesCompModel.summary"
     /\ ~IsRaised(result)
     /\ Len(result.normalized_comps) >= 1)
        => LET ordered(low, med, high) ==
                   /\ low # None /\ med # None /\ high # None
                   /\ RLe(low, med) /\ RLe(med, high)
           IN  /\ ordered(result.stats.low_ppsf, result.stats.median_ppsf,
                          result.stats.high_ppsf)
               /\ ordered(result.stats.low_ppu, result.stats.median_ppu,
                          result.stats.high_ppu)

\* three comps or more have been kept and both bands lie strictly apart from
\* the median price per area
C15_Witness ==
    /\ entry = "SalesCompModel.summary"
    /\ ~IsRaised(result)
    /\ Len(result.normalized_comps) >= 3
    /\ RLt(result.stats.low_ppsf, result.stats.median_ppsf)
    /\ RLt(result.stats.median_ppsf, result.stats.high_ppsf)
    /\ RLt(result.stats.low_ppu, result.stats.median_ppu)

\* C16: normalized_comps are in non-increasing order of similarity_score,
\* there are min(target_comp_count, number of comps passing the filter) of
\* them, each is a comp that passed the filter, no comp that passed and was
\* trimmed scores higher than a kept one, and the statistics and the value
\* estimates are those of the kept comps.
C16_RankedAndTrimmed ==
    (entry = "SalesCompModel.summary" /\ ~IsRaised(result)) =>
        LET count(comps, c) == Cardinality({i \in 1..Len(comps) : comps[i] = c})
            above(comps, c) ==
                Cardinality({i \in 1..Len(comps) :
                                RGt(comps[i].similarity_score, c.similarity_score)})
            top_of(passed, kept) ==
                /\ \A i \in 1..Len(kept), j \in 1..Len(kept) :
                       i < j => RGe(kept[i].similarity_score, kept[j].similarity_score)
                /\ Len(kept) = Min(args.target_comp_count, Len(passed))
                /\ \A i \in 1..Len(kept) :
                       /\ count(kept, kept[i]) <= count(passed, kept[i])
                       /\ above(passed, kept[i]) = above(kept, kept[i])
                /\ result.stats = SalesCompModel_ppu_stats(kept) @@ SalesCompModel_ppsf_stats(kept)
                /\ result.value_estimates.value_by_ppsf_median =
                       SalesCompModel_subject_value_from_ppsf(args, SalesCompModel_ppsf_stats(kept).median_ppsf)
                /\ result.value_estimates.value_by_ppu_median =
                       SalesCompModel_subject_value_from_ppu(args, SalesCompModel_ppu_stats(kept).median_ppu)
            normalized(filtered) ==
                [i \in 1..Len(filtered) |-> SalesCompModel_normalize_comp(args, filtered[i])]
        IN  top_of(normalized(SelectSeq(args.comps,
                                        LAMBDA comp : SalesCompModel_keeps(args, comp))),
                   result.normalized_comps)

\* three comps passed the filter with scores rising in the order given, two
\* were kept and the first one given was trimmed; the median is that of the
\* two kept
C16_Witness ==
    /\ entry = "SalesCompModel.summary"
    /\ ~IsRaised(result)
    /\ args.target_comp_count = 2
    /\ Len(args.comps) = 3
    /\ \A i \in 1..3 : SalesCompModel_keeps(args, args.comps[i])
    /\ Len(result.normalized_comps) = 2
    /\ RGt(result.normalized_comps[1].similarity_score,
           result.normalized_comps[2].similarity_score)
    /\ RGt(result.normalized_comps[2].similarity_score,
           SalesCompModel_normalize_comp(args, args.comps[1]).similarity_score)
    /\ result.normalized_comps[1].price = args.comps[3].price
    /\ result.stats.median_ppsf =
           RDiv(RAdd(result.normalized_comps[1].price_per_sqft,
                     result.normalized_comps[2].price_per_sqft), R(2))

\* C17: _filter_comps returns, in the order given, exactly the comps that have
\* a price and an area, whose distance, when known, is at most
\* max_distance_miles and whose area over the subject area, when the subject
\* area is known, lies in [min_sqft_ratio, max_sqft_ratio], both ends
\* included; an unknown distance drops no comp and an unknown subject area
\* applies no ratio rule.
C17_FilterKeepsExactly ==
    entry = "SalesCompModel._filter_comps" =>
        LET has(comp, key) == key \in DOMAIN comp /\ comp[key] # None /\ comp[key] # R(0)
            near(comp) ==
                has(comp, "distance_miles") => RLe(comp.distance_miles, args.max_distance_miles)
            in_band(comp) ==
                has(args.subject, "sqft") =>
                    /\ RGe(RDiv(comp.sqft, args.subject.sqft), args.min_sqft_ratio)
                    /\ RLe(RDiv(comp.sqft, args.subject.sqft), args.max_sqft_ratio)
            kept(comp) ==
                /\ has(comp, "price") /\ has(comp, "sqft")
                /\ near(comp)
                /\ in_band(comp)
        IN  result.filtered = SelectSeq(args.comps, kept)

\* of two comps given, one at the upper end of the ratio band and of unknown
\* distance was kept and one just past the band, one mile away, was dropped
C17_Witness ==
    /\ entry = "SalesCompModel._filter_comps"
    /\ Len(args.comps) = 2
    /\ Get(args.subject, "sqft") = R(1000)
    /\ Get(args.comps[1], "sqft") = R(1501)
    /\ Get(args.comps[1], "distance_miles") = R(1)
    /\ Get(args.comps[2], "sqft") = R(1500)
    /\ Get(args.comps[2], "distance_miles") = None
    /\ Len(result.filtered) = 1
    /\ result.filtered[1] = args.comps[2]

\* C18: in a summary, value_by_ppsf_median is the median price per area times
\* the subject area and value_by_ppu_median the median price per unit times
\* the subject unit count (1 when the subject gives none), each None when a
\* factor is missing; base_value is the mean of those of the two that are
\* defined; low_value (high_value) is the smallest (largest), across the two
\* methods, of the values computed in the same way from the low (high) rates.
C18_ValueEstimates ==
    (entry = "SalesCompModel.summary" /\ ~IsRaised(result)) =>
        LET times(rate, size) ==
                IF rate = None \/ size = None THEN None ELSE RMul(rate, size)
            mean(a, b) ==
                IF a # None /\ b # None THEN RDiv(RAdd(a, b), R(2))
                ELSE IF a # None THEN a ELSE b
            least(a, b) ==
                IF a # None /\ b # None THEN (IF RLe(a, b) THEN a ELSE b)
                ELSE IF a # None THEN a ELSE b
            most(a, b) ==
                IF a # None /\ b # None THEN (IF RGe(a, b) THEN a ELSE b)
                ELSE IF a # None THEN a ELSE b
            estimates(st, est, area, unit_count) ==
                /\ est.value_by_ppsf_median = times(st.median_ppsf, area)
                /\ est.value_by_ppu_median = times(st.median_ppu, unit_count)
                /\ est.base_value = mean(est.value_by_ppsf_median, est.value_by_ppu_median)
                /\ est.low_value = least(times(st.low_ppsf, area), times(st.low_ppu, unit_count))
                /\ est.high_value = most(times(st.high_ppsf, area), times(st.high_ppu, unit_count))
        IN  estimates(result.stats, result.value_estimates,
                      Get(args.subject, "sqft"),
                      IF Get(args.subject, "num_units") = None THEN R(1)
                      ELSE args.subject.num_units)

\* a two-unit subject of known area has been valued from comps of different
\* rates: both methods give a value, they differ, and the blended value lies
\* strictly between the low and the high value
C18_Witness ==
    /\ entry = "SalesCompModel.summary"
    /\ ~IsRaised(result)
    /\ Get(args.subject, "num_units") = R(2)
    /\ Get(args.subject, "sqft") # None
    /\ result.value_estimates.value_by_ppsf_median # None
    /\ result.value_estimates.value_by_ppu_median = RMul(result.stats.median_ppu, R(2))
    /\ result.value_estimates.value_by_ppsf_median # result.value_estimates.value_by_ppu_median
    /\ RLt(result.value_estimates.low_value, result.value_estimates.base_value)
    /\ RLt(result.value_estimates.base_value, result.value_estimates.high_value)

\* C19: when no comp of the list survives the filter (the list is empty or
\* every comp is dropped), summary() returns without raising, with no
\* normalized comp, every statistic None and every value estimate None, and
\* _sales_comparison_score, given that summary, reports an inactive sales
\* comparison.
C19_NoCompsIsInactive ==
    LET none_survives(sm) ==
            \A i \in 1..Len(sm.comps) : ~SalesCompModel_keeps(sm, sm.comps[i])
        insufficient(summary) ==
            /\ ~IsRaised(summary)
            /\ summary.normalized_comps = <<>>
            /\ \A k \in DOMAIN summary.stats : summary.stats[k] = None
            /\ DOMAIN summary.stats = {"median_ppsf", "low_ppsf", "high_ppsf",
                                       "median_ppu", "low_ppu", "high_ppu"}
            /\ summary.value_estimates.value_by_ppsf_median = None
            /\ summary.value_estimates.value_by_ppu_median = None
            /\ summary.value_estimates.base_value = None
            /\ summary.value_estimates.low_value = None
            /\ summary.value_estimates.high_value = None
    IN  /\ (entry = "SalesCompModel.summary" /\ none_survives(args))
               => insufficient(result)
        /\ (entry = "RecommendationEngine2._sales_comparison_score"
            /\ none_survives(args.model))
               => /\ insufficient(args.sales_comparison)
                  /\ ~IsRaised(result)
                  /\ result.active = FALSE
                  /\ result.score = None

\* two comps were given and both dropped; the summary has no comp and no
\* value, and the aggregator, which has a purchase price, reports the sales
\* comparison inactive
C19_Witness ==
    /\ entry = "RecommendationEngine2._sales_comparison_score"
    /\ Len(args.model.comps) = 2
    /\ \A i \in 1..2 : ~SalesCompModel_keeps(args.model, args.model.comps[i])
    /\ args.model.comps[1] # args.model.comps[2]
    /\ Get(args.valuation_summary, "purchase_price") = R(100)
    /\ args.sales_comparison.normalized_comps = <<>>
    /\ args.sales_comparison.value_estimates.base_value = None
    /\ ~IsRaised(result)
    /\ result.active = FALSE

\* C20: the similarity_score of a normalized comp lies in [0, 100]: it is 100
\* less 5 per bed of difference, 4 per bath of difference, 30 times
\* |1 - comp area / subject area|, 3 per unit of difference in unit count, 10
\* when both property types are known and differ, and 2 per mile of distance
\* up to 5 miles, brought back into [0, 100]; a term whose field is unknown
\* is left out.  Every comp of a summary is in the range as well.
C20_SimilarityScore ==
    LET in_range(score) == RGe(score, R(0)) /\ RLe(score, R(100))
        clamped(raw) ==
            IF RLt(raw, R(0)) THEN R(0) ELSE IF RGt(raw, R(100)) THEN R(100) ELSE raw
        per(a, b, points) ==
            IF a = None \/ b = None THEN R(0) ELSE RMul(R(points), RAbs(RSub(a, b)))
        area(a, b) ==
            IF ~Truthy(a) \/ ~Truthy(b) THEN R(0)
            ELSE RMul(R(30), RAbs(RSub(R(1), RDiv(b, a))))
        units(d) == IF Truthy(Get(d, "num_units")) THEN d.num_units ELSE R(1)
        mismatch(a, b) ==
            IF a # "" /\ b # "" /\ a # b THEN R(10) ELSE R(0)
        miles(d) == IF d = None THEN R(0) ELSE RMul(R(2), IF RLt(d, R(5)) THEN d ELSE R(5))
        penalties(subj, comp) ==
            RAdd(RAdd(RAdd(RAdd(RAdd(
                per(Get(subj, "beds"), Get(comp, "beds"), 5),
                per(Get(subj, "baths"), Get(comp, "baths"), 4)),
                area(Get(subj, "sqft"), Get(comp, "sqft"))),
                per(units(subj), units(comp), 3)),
                mismatch(LowerOrEmpty(Get(subj, "property_type")),
                         LowerOrEmpty(Get(comp, "property_type")))),
                miles(Get(comp, "distance_miles")))
    IN  /\ entry = "SalesCompModel._normalize_comp" =>
               /\ ~IsRaised(result)
               /\ in_range(result.similarity_score)
               /\ result.similarity_score =
                      clamped(RSub(R(100), penalties(args.model.subject, args.comp)))
        /\ (entry = "SalesCompModel.summary" /\ ~IsRaised(result)) =>
               \A i \in 1..Len(result.normalized_comps) :
                   /\ in_range(result.normalized_comps[i].similarity_score)
                   /\ result.normalized_comps[i].similarity_score =
                          clamped(RSub(R(100), penalties(args.subject,
                                                         result.normalized_comps[i])))

\* a comp 27 beds, 18 baths and 39 units away from the subject, of another
\* type and 50 miles off has been scored: the penalties pass 100 and the score
\* is 0
C20_Witness ==
    /\ entry = "SalesCompModel._normalize_comp"
    /\ Get(args.model.subject, "beds") = R(3)
    /\ Get(args.comp, "beds") = R(30)
    /\ Get(args.comp, "distance_miles") = R(50)
    /\ ~IsRaised(result)
    /\ result.similarity_score = R(0)

\* C26: summary() leaves the object as it found it: the comps list keeps its
\* length, its order and every field of every comp, the subject and the
\* settings are unchanged, and a second summary() on the same object returns
\* a result equal to the first.
C26_SummaryLeavesInputs ==
    entry = "SalesCompModel.summary again" =>
        /\ Len(args.after.comps) = Len(args.before.comps)
        /\ \A i \in 1..Len(args.before.comps) :
               /\ DOMAIN args.after.comps[i] = DOMAIN args.before.comps[i]
               /\ args.after.comps[i] = args.before.comps[i]
        /\ args.after.subject = args.before.subject
        /\ args.after = args.before
        /\ result.second = result.first

\* the object had three comps, given in another order than the ranking of
\* the summary, and two were kept and normalized
C26_Witness ==
    /\ entry = "SalesCompModel.summary again"
    /\ Len(args.before.comps) = 3
    /\ Len(result.first.normalized_comps) = 2
    /\ result.first.normalized_comps[1].price = args.before.comps[3].price
    /\ result.first.normalized_comps[1].price # args.before.comps[1].price
    /\ "price_per_sqft" \in DOMAIN result.first.normalized_comps[1]
    /\ "price_per_sqft" \notin DOMAIN args.after.comps[3]

\* C29: whenever summary() gives a base_value, it also gives a low_value and
\* a high_value, and low_value <= base_value <= high_value.
C29_BaseWithinBand ==
    (entry = "SalesCompModel.summary" /\ result.value_estimates.base_value # None) =>
        /\ result.value_estimates.low_value # None
        /\ result.value_estimates.high_value # None
        /\ RLe(result.value_estimates.low_value, result.value_estimates.base_value)
        /\ RLe(result.value_estimates.base_value, result.value_estimates.high_value)

\* both methods gave a value and they differ: the base value, their mean,
\* lies strictly inside the band
C29_Witness ==
    /\ entry = "SalesCompModel.summary"
    /\ result.value_estimates.value_by_ppsf_median # None
    /\ result.value_estimates.value_by_ppu_median # None
    /\ result.value_estimates.value_by_ppsf_median # result.value_estimates.value_by_ppu_median
    /\ Len(result.normalized_comps) >= 3
    /\ RLt(result.value_estimates.low_value, result.value_estimates.base_value)
    /\ RLt(result.value_estimates.base_value, result.value_estimates.high_value)

---------------------------------------------------------------------------
(* Properties of CapRateModel.                                              *)

\* C21: with the property type, the submarket class and the rent-control flag
\* held fixed, the final cap rate of a model with a higher risk score is never
\* lower, scores under 0 and over 100 included: the rate summary() returns is
\* at most the rate of the same model at every score that is not lower.
C21_RateRisesWithRisk ==
    (entry = "CapRateModel.summary" /\ ~IsRaised(result) /\ args.risk_score # None) =>
        LET final_at(rs) ==
                CapRateModel_summary(
                    CapRateModel_init(args.property_type, args.submarket_class,
                                      rs, args.is_rent_controlled)).final_cap_rate
        IN  \A rs \in RiskScores \ {None} :
                RLe(args.risk_score, rs) => RLe(result.final_cap_rate, final_at(rs))

\* a model at score 79 has been priced 20 bps over its base, and the same
\* model at score 80 is priced 75 bps over it
C21_Witness ==
    /\ entry = "CapRateModel.summary"
    /\ ~IsRaised(result)
    /\ args.risk_score = R(79)
    /\ ~args.is_rent_controlled
    /\ result.final_cap_rate = RAdd(result.base_cap_rate, <<1, 500>>)
    /\ CapRateModel_adjusted_cap_rate(
           CapRateModel_init(args.property_type, args.submarket_class, R(80), FALSE))
       = RAdd(result.base_cap_rate, <<3, 400>>)

\* C22: in a summary, final_cap_rate is base_cap_rate + risk_adjustment +
\* rent_control_adjustment rounded to 4 decimals; risk_adjustment is 0 without
\* a score and, for the score brought into [0, 100], -10 bps under 20, -5 bps
\* under 40, 0 under 60, +20 bps under 80 and +75 bps from 80 on;
\* rent_control_adjustment is 0 without the flag and +30 bps for a base up to
\* 0.04, +40 bps up to 0.05 and +50 bps above.  Type "5+", class stable,
\* score 50 and no rent control give 0.0475, 0, 0, 0.0475.
C22_FinalIsSumOfAdjustments ==
    (entry = "CapRateModel.summary" /\ ~IsRaised(result)) =>
        LET bps(n) == Norm(n, 10000)
            within(rs) ==
                IF RLt(rs, R(0)) THEN R(0) ELSE IF RGt(rs, R(100)) THEN R(100) ELSE rs
            by_band(rs) ==
                IF RLt(rs, R(20)) THEN bps(-10)
                ELSE IF RLt(rs, R(40)) THEN bps(-5)
                ELSE IF RLt(rs, R(60)) THEN bps(0)
                ELSE IF RLt(rs, R(80)) THEN bps(20)
                ELSE bps(75)
            risk == IF args.risk_score = None THEN R(0)
                    ELSE by_band(within(args.risk_score))
            rent_control(base) ==
                IF ~args.is_rent_controlled THEN R(0)
                ELSE IF RLe(base, bps(400)) THEN bps(30)
                ELSE IF RLe(base, bps(500)) THEN bps(40)
                ELSE bps(50)
        IN  /\ result.risk_adjustment = risk
            /\ result.rent_control_adjustment = rent_control(result.base_cap_rate)
            /\ result.final_cap_rate =
                   Round(RAdd(RAdd(result.base_cap_rate, result.risk_adjustment),
                              result.rent_control_adjustment), 4)
            /\ (/\ args.property_type = <<"5+">> /\ args.submarket_class = <<"stable">>
                /\ args.risk_score = R(50) /\ ~args.is_rent_controlled)
                   => /\ result.base_cap_rate = bps(475)
                      /\ result.risk_adjustment = R(0)
                      /\ result.rent_control_adjustment = R(0)
                      /\ result.final_cap_rate = bps(475)

\* a rent-controlled model with a base of exactly 0.04 and a score over 100
\* has been priced: 0.04 + 0.0075 + 0.0030
C22_Witness ==
    /\ entry = "CapRateModel.summary"
    /\ ~IsRaised(result)
    /\ args.is_rent_controlled
    /\ args.risk_score = R(105)
    /\ result.base_cap_rate = <<1, 25>>
    /\ result.risk_adjustment = <<3, 400>>
    /\ result.rent_control_adjustment = <<3, 1000>>
    /\ result.final_cap_rate = <<101, 2000>>

\* C23: summary() returns a numeric base and final rate for every property
\* type and submarket class: the base rate is the grid's cell for the type and
\* the class compared in lower case, with the row "5+" for a type that is none
\* of the eight of the grid ("", None, "single_family" and "2-4 unit" among
\* them) and the column "stable" for a class that is none of the five.
C23_BaseRateAlwaysNumeric ==
    (entry = "CapRateModel.summary") =>
        LET types == {"sfr", "2-4", "5+", "mixed_use", "retail", "office",
                      "industrial", "land"}
            classes == {"prime", "core", "stable", "transitional", "distressed"}
            row_of(tag) == IF tag \in types THEN tag ELSE "5+"
            column_of(tier) == IF tier \in classes THEN tier ELSE "stable"
        IN  /\ ~IsRaised(result)
            /\ result.base_cap_rate # None
            /\ RGt(result.base_cap_rate, R(0))
            /\ result.final_cap_rate # None
            /\ RGt(result.final_cap_rate, R(0))
            /\ result.base_cap_rate =
                   CapRateModel_base_cap_rate_grid
                       [row_of(LowerOrEmpty(args.property_type))]
                       [column_of(LowerOrEmpty(args.submarket_class))]

\* the type "single_family" in an unknown class has been priced at the rate of
\* "5+" stable, and "SFR" is matched to the grid's "sfr"
C23_Witness ==
    /\ entry = "CapRateModel.summary"
    /\ ~IsRaised(result)
    /\ args.property_type = <<"single_family">>
    /\ args.submarket_class = <<"Luxury">>
    /\ result.base_cap_rate = <<19, 400>>
    /\ CapRateModel_base_cap_rate(CapRateModel_init(<<"SFR">>, <<"Prime">>, None, FALSE))
       = <<7, 200>>

---------------------------------------------------------------------------
(* Properties of the orchestrator's financing stage.                        *)

\* C24: _build_financing_profile returns a not-computed section (a note and
\* no loan, payment, DSCR or LTV) exactly when the NOI or the purchase price
\* is absent, and otherwise the DSCRLoanModel summary for the supplied terms,
\* with 0.0675, 30, 1.20 and 0.75 for a term left out; and a run that has a
\* primary_url enters the valuation and the recommendation stage after the
\* financing stage.
C24_FinancingSkippedOrSized ==
    /\ entry = "AppraiserEngine._build_financing_profile" =>
           LET absent ==
                   \/ ~Truthy(Or(Get(args.income_profile, "noi"),
                                 Get(args.income_profile, "noi_stabilized")))
                   \/ ~Truthy(args.purchase_price)
               term(name, default) ==
                   IF name \in DOMAIN args.financing THEN args.financing[name] ELSE default
           IN  /\ ~IsRaised(result)
               /\ absent <=> "note" \in DOMAIN result
               /\ absent => DOMAIN result = {"inputs", "note"}
               /\ ~absent =>
                      /\ result.inputs.interest_rate = term("interest_rate", <<27, 400>>)
                      /\ result.inputs.amort_years = term("amort_years", 30)
                      /\ result.inputs.min_dscr = term("min_dscr", <<6, 5>>)
                      /\ result.inputs.max_ltv = term("max_ltv", <<3, 4>>)
                      /\ {"final_loan_amount", "monthly_payment", "dscr_at_final_loan",
                          "ltv_at_final_loan"} \subseteq DOMAIN result
    /\ (/\ entry = "AppraiserEngine.run_full_appraisal"
        /\ args.config.primary_url # None
        /\ args.config.primary_url[1] # "")
           => \E i \in 1..(Len(stages) - 2) :
                 /\ stages[i] = "financing"
                 /\ stages[i + 1] = "valuation"
                 /\ stages[i + 2] = "recommendation"

---------------------------------------------------------------------------
(* Properties of the MarketConfidenceScorer.                                *)

---------------------------------------------------------------------------
(* Properties of the bucket RecommendationEngine.                           *)

\* C27: with no signal at all (no risk score, no risk grade, a DSCR summary
\* without coverage and leverage figures, no cap rates, no purchase price, no
\* cash-on-cash and no rent-control flag) recommend() reports the three
\* bucket scores as 0 and a decision other than BUY.
C27_NoSignalNeverBuy ==
    (/\ entry = "RecommendationEngine.recommend"
     /\ args.risk_score = None
     /\ args.risk_grade = None
     /\ Get(args.dscr_summary, "dscr_at_final_loan") = None
     /\ Get(args.dscr_summary, "ltv_at_final_loan") = None
     /\ Get(args.cap_rate_summary, "final_cap_rate") = None
     /\ Get(args.cap_rate_summary, "base_cap_rate") = None
     /\ Get(args.valuation_summary, "purchase_price") = None
     /\ args.cash_on_cash = None
     /\ ~GetD(args.jurisdiction_flags, "is_rent_controlled", FALSE))
        => /\ result.diagnostics.score_buy = R(0)
           /\ result.diagnostics.score_watch = R(0)
           /\ result.diagnostics.score_pass = R(0)
           /\ result.decision # "BUY"

====
